---------------------------- MODULE Spec2Model ----------------------------
(***************************************************************************)
(* Model of the two database-initialisation Lambda handlers of             *)
(* librechat-cdk:                                                          *)
(*   src/lambda/init-docdb/init_docdb.py       (names starting Doc, doc_)  *)
(*   src/lambda/init-postgres/init_postgres.py (names starting Pg, pg_)    *)
(*                                                                         *)
(* Every function of the source is a small state machine whose locals are  *)
(* the fields of one record variable, with its own program counter `pc`;   *)
(* a caller sets the callee's pc to "call" and resumes when the callee has *)
(* "returned" or "raised".  The databases, the secret store and the        *)
(* network are the environment: each call into them picks one of the       *)
(* outcomes the library can produce.                                       *)
(*                                                                         *)
(* An optional value (a Python None, an absent dict key, an unset          *)
(* environment variable) is the empty set; a present value v is {v}.       *)
(* Durations of the document-store loop are whole seconds; durations of    *)
(* the relational loop are ticks of 2^-10 s (its delays are fractional).   *)
(***************************************************************************)
EXTENDS Integers, Sequences, FiniteSets, TLC

VARIABLES
    doc_env,     \* os.environ of the document-store Lambda
    doc_wait,    \* init_docdb.wait_for_db: its locals and what it did
    doc_db,      \* the DocumentDB cluster: the catalog of each database
    doc_init,    \* init_docdb.init_collections, one record per invocation
    pg_env,      \* os.environ of the relational Lambda
    pg_wait,     \* init_postgres.wait_for_db: its locals and what it did
    pg_db,       \* the PostgreSQL server: its databases and their catalogs
    pg_conns,    \* the connections the handler opened, in order
    pg_init,     \* init_postgres.init_pgvector: its locals and what it did
    doc_h,       \* init_docdb.handler: its locals and what it did
    pg_h         \* init_postgres.handler: its locals and what it did

vars ==
    <<doc_env, doc_wait, doc_db, doc_init, pg_env, pg_wait, pg_db, pg_conns, pg_init,
      doc_h, pg_h>>

-----------------------------------------------------------------------------
(* Optional values and arithmetic helpers *)

None ==
    {}

Some(v) ==
    {v}

\* dict.get(key, default) / os.environ.get(name, default)
Get(opt, default) ==
    IF opt = {} THEN default ELSE CHOOSE v \in opt : TRUE

Min(a, b) ==
    IF a <= b THEN a ELSE b

RECURSIVE SumSeq(_)
SumSeq(s) ==
    IF s = <<>> THEN 0 ELSE Head(s) + SumSeq(Tail(s))

\* the subsets of S with at most n elements
RECURSIVE SubsetsUpTo(_, _)
SubsetsUpTo(S, n) ==
    IF n = 0 THEN {{}}
    ELSE LET smaller == SubsetsUpTo(S, n - 1)
         IN smaller \cup {t \cup {e} : t \in smaller, e \in S}

RECURSIVE Pow(_, _)
Pow(b, n) ==
    IF n = 0 THEN 1 ELSE b * Pow(b, n - 1)

-----------------------------------------------------------------------------
(* Bounds of the model *)

\* largest retry budget drawn for MAX_RETRIES / max_retries
MaxRetries ==
    4

\* the most calls of a schema initialisation on one database
MaxRuns ==
    2

\* the retry delays drawn for RETRY_DELAY / retry_delay (seconds)
RetryDelays ==
    {1, 10, 40, 70}

\* the database names drawn for DBName / DB_NAME; 'librechat' is the default
DbNames ==
    {"librechat", "app"}

\* the invocations that may run against one document database
Procs ==
    {1, 2}

-----------------------------------------------------------------------------
(* init_docdb.py: wait_for_db *)

\* os.environ.get('MAX_RETRIES', '30')
DocDefaultMaxRetries ==
    30

\* os.environ.get('RETRY_DELAY', '10')
DocDefaultRetryDelay ==
    10

\* min(current_delay * 2, 60)
DocBackoffCap ==
    60

DocNextDelayUncapped(current_delay) ==
    current_delay * 2

DocNextDelay(current_delay) ==
    Min(current_delay * 2, DocBackoffCap)

\* total_wait_time = max_retries * retry_delay
DocTotalWaitTime(max_retries, retry_delay) ==
    max_retries * retry_delay

\* What one pass through the try block can do.
\*   ok        MongoClient(...), ping and close all succeed
\*   ctor      MongoClient(...) itself raises: no client exists
\*   timeout   ping raises ServerSelectionTimeoutError
\*   auth      ping raises OperationFailure (authentication failed)
\*   other     ping raises any other exception
DocAttemptOutcomes ==
    {"ok", "ctor", "timeout", "auth", "other"}

\* The function before it is called.
\*   pc        "idle" | "call" | "loop" | "except_timeout" | "except_other"
\*             | "sleeping" | "returned" | "raised"
\*   args      the optional parameters max_retries, retry_delay
\*   i         loop index of `for i in range(max_retries)`
\*   attempts  passes through the try block so far
\*   sleeps    the durations passed to time.sleep, in order
\*   opened    probe clients constructed; closed: probe clients closed
\*   auth      TRUE once a pass failed on authentication
\*   last      outcome of the latest pass
\*   error     the raised error, or None
DocWaitIdle ==
    [pc |-> "idle",
     args |-> [max_retries |-> None, retry_delay |-> None],
     max_retries |-> 0, retry_delay |-> 0, current_delay |-> 0, i |-> 0,
     attempts |-> 0, sleeps |-> <<>>, opened |-> 0, closed |-> 0,
     auth |-> FALSE, last |-> "none", error |-> None]

DocWaitCall(max_retries, retry_delay) ==
    [DocWaitIdle EXCEPT !.pc = "call",
                        !.args = [max_retries |-> max_retries,
                                  retry_delay |-> retry_delay]]

docWaitFrame ==
    <<doc_env, doc_db, doc_init, pg_env, pg_wait, pg_db, pg_conns, pg_init,
      doc_h, pg_h>>

\* lines 139-148: defaults from the environment, current_delay = retry_delay
DocWaitStart ==
    /\ doc_wait.pc = "call"
    /\ LET max_retries ==
               Get(doc_wait.args.max_retries,
                   Get(doc_env.MAX_RETRIES, DocDefaultMaxRetries))
           retry_delay ==
               Get(doc_wait.args.retry_delay,
                   Get(doc_env.RETRY_DELAY, DocDefaultRetryDelay))
       IN doc_wait' = [doc_wait EXCEPT !.max_retries = max_retries,
                                       !.retry_delay = retry_delay,
                                       !.current_delay = retry_delay,
                                       !.i = 0,
                                       !.pc = "loop"]
    /\ UNCHANGED docWaitFrame

\* lines 150-168: one pass through the try block
DocWaitAttempt(outcome) ==
    /\ doc_wait.pc = "loop"
    /\ doc_wait.i < doc_wait.max_retries
    /\ doc_wait' =
         [doc_wait EXCEPT
             !.attempts = @ + 1,
             !.last = outcome,
             !.opened = IF outcome = "ctor" THEN @ ELSE @ + 1,
             !.closed = IF outcome = "ok" THEN @ + 1 ELSE @,
             !.auth = (@ \/ outcome = "auth"),
             !.pc = CASE outcome = "ok" -> "returned"
                      [] outcome = "timeout" -> "except_timeout"
                      [] OTHER -> "except_other"]
    /\ UNCHANGED docWaitFrame

\* An except clause that sleeps after the last pass too.
DocWaitExceptBodyAlwaysSleeps ==
    /\ doc_wait' = [doc_wait EXCEPT !.sleeps = Append(@, doc_wait.current_delay),
                                    !.pc = "sleeping"]
    /\ UNCHANGED docWaitFrame

\* The body shared by both except clauses: sleep unless this was the last pass.
DocWaitExceptBody ==
    /\ doc_wait' =
         IF doc_wait.i < doc_wait.max_retries - 1
         THEN [doc_wait EXCEPT !.sleeps = Append(@, doc_wait.current_delay),
                               !.pc = "sleeping"]
         ELSE [doc_wait EXCEPT !.i = @ + 1, !.pc = "loop"]
    /\ UNCHANGED docWaitFrame

\* lines 170-174: except ServerSelectionTimeoutError
DocWaitExceptTimeout ==
    /\ doc_wait.pc = "except_timeout"
    /\ DocWaitExceptBody

\* lines 177-181: except Exception
DocWaitExceptOther ==
    /\ doc_wait.pc = "except_other"
    /\ DocWaitExceptBody

\* lines 174-176 / 181-183: time.sleep returns, the delay doubles up to the cap
DocWaitWake ==
    /\ doc_wait.pc = "sleeping"
    /\ doc_wait' = [doc_wait EXCEPT !.current_delay = DocNextDelay(@),
                                    !.i = @ + 1,
                                    !.pc = "loop"]
    /\ UNCHANGED docWaitFrame

\* lines 185-186: the loop ran out
DocWaitExhausted ==
    /\ doc_wait.pc = "loop"
    /\ doc_wait.i >= doc_wait.max_retries
    /\ doc_wait' =
         [doc_wait EXCEPT
             !.error = Some([kind |-> "exhausted",
                             total_wait_time |->
                                 DocTotalWaitTime(doc_wait.max_retries,
                                                  doc_wait.retry_delay),
                             attempts |-> doc_wait.max_retries]),
             !.pc = "raised"]
    /\ UNCHANGED docWaitFrame

DocWaitNext ==
    \/ DocWaitStart
    \/ \E outcome \in DocAttemptOutcomes : DocWaitAttempt(outcome)
    \/ DocWaitExceptTimeout
    \/ DocWaitExceptOther
    \/ DocWaitWake
    \/ DocWaitExhausted

\* The environment variables the retry loops read.
NoEnv ==
    [DB_HOST |-> None, DB_PORT |-> None, DB_NAME |-> None,
     DB_SECRET_ID |-> None, DB_USER |-> None, DB_PASSWORD |-> None,
     MAX_RETRIES |-> None, RETRY_DELAY |-> None]

RetryEnvs ==
    {[NoEnv EXCEPT !.MAX_RETRIES = max_retries, !.RETRY_DELAY = retry_delay] :
        max_retries \in {None} \cup {Some(n) : n \in 1..MaxRetries},
        retry_delay \in {None} \cup {Some(d) : d \in RetryDelays}}

-----------------------------------------------------------------------------
(* init_postgres.py: wait_for_db *)

\* os.environ.get('MAX_RETRIES', '30')
PgDefaultMaxRetries ==
    30

\* os.environ.get('RETRY_DELAY', '5')
PgDefaultRetryDelay ==
    5

\* min(retry_delay * (1.5 ** min(i, 10)), 60): the cap in seconds
PgBackoffCap ==
    60

\* min(i, 10): the largest exponent
PgBackoffMaxExp ==
    10

\* time.time() % 5: the jitter is below this many seconds
PgJitterModulus ==
    5

\* Durations of this loop are counted in ticks of 2^-10 second, which makes
\* retry_delay * 1.5 ** k exact for every k up to PgBackoffMaxExp.
PgTicksPerSecond ==
    Pow(2, PgBackoffMaxExp)

\* the jitters drawn for time.time() % 5, in ticks
PgJitters ==
    {0, PgJitterModulus * PgTicksPerSecond - 1}

\* retry_delay * (1.5 ** min(i, 10)), in ticks
PgScaledDelay(retry_delay, i) ==
    LET k == Min(i, PgBackoffMaxExp)
    IN retry_delay * Pow(3, k) * Pow(2, PgBackoffMaxExp - k)

\* delay = min(retry_delay * (1.5 ** min(i, 10)), 60) + (time.time() % 5)
PgBackoffDelay(retry_delay, i, jitter) ==
    Min(PgScaledDelay(retry_delay, i), PgBackoffCap * PgTicksPerSecond) + jitter

\* The substrings of an OperationalError's message the loop looks for.
PgCouldNotConnect ==
    "could not connect to server"

PgAuthFailed ==
    "password authentication failed"

PgSslClosed ==
    "SSL connection has been closed unexpectedly"

\* The messages drawn for a failing psycopg2.connect: a message is the set of
\* the substrings above that it contains.
PgConnectMsgs ==
    {{}, {PgCouldNotConnect}, {PgAuthFailed}, {PgSslClosed},
     {PgCouldNotConnect, PgAuthFailed}}

\* The messages drawn for a failing SELECT 1 on an open connection.
PgQueryMsgs ==
    {{}, {PgSslClosed}}

\* What one pass through the try block can do: succeed, or raise from
\* psycopg2.connect (phase "connect": no connection exists) or from the
\* SELECT 1 probe (phase "query": the connection exists), with an
\* OperationalError or with any other exception.
PgAttemptOutcomes ==
    {[phase |-> "none", type |-> "ok", msg |-> {}]}
    \cup [phase : {"connect"}, type : {"OperationalError"}, msg : PgConnectMsgs]
    \cup [phase : {"query"}, type : {"OperationalError"}, msg : PgQueryMsgs]
    \cup [phase : {"connect", "query"}, type : {"Exception"}, msg : {{}}]

PgNoOutcome ==
    [phase |-> "none", type |-> "none", msg |-> {}]

\* A classification that never recognises an authentication failure.
PgClassifyNoAuth(error_msg) ==
    IF PgCouldNotConnect \in error_msg THEN "unreachable"
    ELSE IF PgSslClosed \in error_msg THEN "ssl"
    ELSE "unclassified"

\* lines 75-81: the if / elif chain over error_msg
PgClassify(error_msg) ==
    IF PgCouldNotConnect \in error_msg THEN "unreachable"
    ELSE IF PgAuthFailed \in error_msg THEN "auth"
    ELSE IF PgSslClosed \in error_msg THEN "ssl"
    ELSE "unclassified"

\* The function before it is called.
\*   pc         "idle" | "call" | "loop" | "except_operational" | "except_other"
\*              | "sleeping" | "returned" | "raised"
\*   nsleeps    calls of time.sleep so far
\*   lastsleep  the latest sleep: which clause slept and for how many ticks
\*   opened     probe connections opened; closed: probe connections closed
\*   last       outcome of the latest pass
\*   error      the raised error, or None
PgWaitIdle ==
    [pc |-> "idle",
     args |-> [max_retries |-> None, retry_delay |-> None],
     max_retries |-> 0, retry_delay |-> 0, i |-> 0,
     attempts |-> 0, nsleeps |-> 0, lastsleep |-> None,
     opened |-> 0, closed |-> 0, last |-> PgNoOutcome, error |-> None]

PgWaitCall(max_retries, retry_delay) ==
    [PgWaitIdle EXCEPT !.pc = "call",
                       !.args = [max_retries |-> max_retries,
                                 retry_delay |-> retry_delay]]

pgWaitFrame ==
    <<doc_env, doc_wait, doc_db, doc_init, pg_env, pg_db, pg_conns, pg_init,
      doc_h, pg_h>>

\* lines 35-38: defaults from the environment
PgWaitStart ==
    /\ pg_wait.pc = "call"
    /\ pg_wait' =
         [pg_wait EXCEPT
             !.max_retries = Get(pg_wait.args.max_retries,
                                 Get(pg_env.MAX_RETRIES, PgDefaultMaxRetries)),
             !.retry_delay = Get(pg_wait.args.retry_delay,
                                 Get(pg_env.RETRY_DELAY, PgDefaultRetryDelay)),
             !.i = 0,
             !.pc = "loop"]
    /\ UNCHANGED pgWaitFrame

\* lines 44-68: one pass through the try block
PgWaitAttempt(outcome) ==
    /\ pg_wait.pc = "loop"
    /\ pg_wait.i < pg_wait.max_retries
    /\ pg_wait' =
         [pg_wait EXCEPT
             !.attempts = @ + 1,
             !.last = outcome,
             !.opened = IF outcome.phase = "connect" THEN @ ELSE @ + 1,
             !.closed = IF outcome.type = "ok" THEN @ + 1 ELSE @,
             !.pc = CASE outcome.type = "ok" -> "returned"
                      [] outcome.type = "OperationalError" -> "except_operational"
                      [] OTHER -> "except_other"]
    /\ UNCHANGED pgWaitFrame

\* lines 70-87: except psycopg2.OperationalError
PgWaitExceptOperational(jitter) ==
    /\ pg_wait.pc = "except_operational"
    /\ pg_wait' =
         IF PgClassify(pg_wait.last.msg) = "auth"
         THEN [pg_wait EXCEPT !.error = Some([kind |-> "reraised",
                                              exc |-> pg_wait.last]),
                              !.pc = "raised"]
         ELSE IF pg_wait.i < pg_wait.max_retries - 1
         THEN [pg_wait EXCEPT
                  !.nsleeps = @ + 1,
                  !.lastsleep = Some([clause |-> "OperationalError",
                                      ticks |-> PgBackoffDelay(pg_wait.retry_delay,
                                                               pg_wait.i, jitter)]),
                  !.pc = "sleeping"]
         ELSE [pg_wait EXCEPT !.i = @ + 1, !.pc = "loop"]
    /\ UNCHANGED pgWaitFrame

\* An except clause that leaves the last pass to the end of the loop.
PgWaitExceptOtherFallsThrough ==
    /\ pg_wait.pc = "except_other"
    /\ pg_wait' =
         IF pg_wait.i < pg_wait.max_retries - 1
         THEN [pg_wait EXCEPT
                  !.nsleeps = @ + 1,
                  !.lastsleep = Some([clause |-> "Exception",
                                      ticks |-> pg_wait.retry_delay
                                                * PgTicksPerSecond]),
                  !.pc = "sleeping"]
         ELSE [pg_wait EXCEPT !.i = @ + 1, !.pc = "loop"]
    /\ UNCHANGED pgWaitFrame

\* lines 89-94: except Exception
PgWaitExceptOther ==
    /\ pg_wait.pc = "except_other"
    /\ pg_wait' =
         IF pg_wait.i < pg_wait.max_retries - 1
         THEN [pg_wait EXCEPT
                  !.nsleeps = @ + 1,
                  !.lastsleep = Some([clause |-> "Exception",
                                      ticks |-> pg_wait.retry_delay
                                                * PgTicksPerSecond]),
                  !.pc = "sleeping"]
         ELSE [pg_wait EXCEPT !.error = Some([kind |-> "reraised",
                                              exc |-> pg_wait.last]),
                              !.pc = "raised"]
    /\ UNCHANGED pgWaitFrame

\* lines 87 / 92: time.sleep returns and the loop goes on
PgWaitWake ==
    /\ pg_wait.pc = "sleeping"
    /\ pg_wait' = [pg_wait EXCEPT !.i = @ + 1, !.pc = "loop"]
    /\ UNCHANGED pgWaitFrame

\* line 96: the loop ran out
PgWaitExhausted ==
    /\ pg_wait.pc = "loop"
    /\ pg_wait.i >= pg_wait.max_retries
    /\ pg_wait' =
         [pg_wait EXCEPT
             !.error = Some([kind |-> "exhausted",
                             attempts |-> pg_wait.max_retries]),
             !.pc = "raised"]
    /\ UNCHANGED pgWaitFrame

PgWaitNext ==
    \/ PgWaitStart
    \/ \E outcome \in PgAttemptOutcomes : PgWaitAttempt(outcome)
    \/ \E jitter \in PgJitters : PgWaitExceptOperational(jitter)
    \/ PgWaitExceptOther
    \/ PgWaitWake
    \/ PgWaitExhausted

-----------------------------------------------------------------------------
(* The DocumentDB catalog *)

\* lines 193-231: the collections dict, in insertion order.  An index is its
\* key and its options: "unique", "ttl" (expireAfterSeconds) or "plain".
DocSchema ==
    <<[name |-> "users",
       indexes |-> <<[key |-> "email:1", options |-> "unique"],
                     [key |-> "username:1", options |-> "unique"],
                     [key |-> "createdAt:1", options |-> "plain"]>>],
      [name |-> "conversations",
       indexes |-> <<[key |-> "userId:1,createdAt:-1", options |-> "plain"],
                     [key |-> "endpoint:1", options |-> "plain"],
                     [key |-> "title:text", options |-> "plain"]>>],
      [name |-> "messages",
       indexes |-> <<[key |-> "conversationId:1,createdAt:1", options |-> "plain"],
                     [key |-> "userId:1", options |-> "plain"],
                     [key |-> "parentMessageId:1", options |-> "plain"]>>],
      [name |-> "presets",
       indexes |-> <<[key |-> "userId:1", options |-> "plain"],
                     [key |-> "title:1", options |-> "plain"]>>],
      [name |-> "files",
       indexes |-> <<[key |-> "userId:1,createdAt:-1", options |-> "plain"],
                     [key |-> "type:1", options |-> "plain"],
                     [key |-> "filename:1", options |-> "plain"]>>],
      [name |-> "assistants",
       indexes |-> <<[key |-> "userId:1", options |-> "plain"],
                     [key |-> "name:1", options |-> "plain"]>>],
      [name |-> "tools",
       indexes |-> <<[key |-> "userId:1", options |-> "plain"],
                     [key |-> "name:1", options |-> "plain"],
                     [key |-> "type:1", options |-> "plain"]>>],
      [name |-> "sessions",
       indexes |-> <<[key |-> "userId:1", options |-> "plain"],
                     [key |-> "expiresAt:1", options |-> "ttl"]>>]>>

\* lines 264-266: the system indexes, created outside the inner try
DocSystemIndexes ==
    <<[collection |-> "users", key |-> "lastLogin:-1", options |-> "plain"],
      [collection |-> "conversations", key |-> "updatedAt:-1", options |-> "plain"],
      [collection |-> "messages", key |-> "model:1", options |-> "plain"]>>

DocCollectionNames ==
    {DocSchema[c].name : c \in 1..Len(DocSchema)}

\* the indexes declared per collection, as the catalog holds them
DocDeclaredIndexes ==
    UNION {{[collection |-> DocSchema[c].name,
             key |-> DocSchema[c].indexes[x].key,
             options |-> DocSchema[c].indexes[x].options] :
                x \in 1..Len(DocSchema[c].indexes)} : c \in 1..Len(DocSchema)}

\* every index init_collections asks for
DocAllIndexes ==
    DocDeclaredIndexes \cup {DocSystemIndexes[x] : x \in 1..Len(DocSystemIndexes)}

DocEmptyCatalog ==
    [collections |-> {}, indexes |-> {}]

DocNoCatalogs ==
    [d \in DbNames |-> DocEmptyCatalog]

\* collection.create_index(key, **options) on the server: it creates the
\* collection when that is missing, does nothing when the same index is
\* there, and fails with 'already exists' when an index on the same key has
\* other options.
DocCreateIndex(catalog, index) ==
    LET conflict == \E j \in catalog.indexes :
                        /\ j.collection = index.collection
                        /\ j.key = index.key
                        /\ j.options # index.options
    IN IF conflict
       THEN [raised |-> "already exists", catalog |-> catalog]
       ELSE [raised |-> "",
             catalog |-> [collections |-> catalog.collections
                                             \cup {index.collection},
                          indexes |-> catalog.indexes \cup {index}]]

-----------------------------------------------------------------------------
(* init_docdb.py: init_collections *)

\* The function before it is called.
\*   pc         "idle" | "call" | "check" | "create" | "index" | "system"
\*              | "except" | "returned" | "raised"
\*   db         the database name of `db`
\*   c, x       position in the collections dict and in its index list
\*   before     the catalog when the function was called
\*   created    the collections it created with create_collection
\*   tolerated  'already exists' failures of create_index it swallowed
\*   injected   TRUE when the server failed a call for a reason of its own
\*   runs       calls so far; previous: how each earlier call ended and the
\*              catalog it started from
\*   error      the raised error, or None
DocInitIdle ==
    [pc |-> "idle", db |-> "librechat", c |-> 0, x |-> 0,
     before |-> DocEmptyCatalog, created |-> {}, tolerated |-> 0,
     injected |-> FALSE, runs |-> 0, previous |-> <<>>, error |-> None]

DocInitCall(st, db) ==
    [st EXCEPT !.pc = "call", !.db = db, !.c = 0, !.x = 0, !.created = {},
               !.tolerated = 0, !.injected = FALSE, !.runs = @ + 1,
               !.previous = IF st.pc \in {"returned", "raised"}
                            THEN Append(@, [pc |-> st.pc, before |-> st.before])
                            ELSE @,
               !.error = None]

docInitFrame ==
    <<doc_env, doc_wait, pg_env, pg_wait, pg_db, pg_conns, pg_init, doc_h, pg_h>>

\* A check that reports every collection as missing.
DocCollectionMissingAlways(collection_name, listed) ==
    TRUE

\* line 236: collection_name not in db.list_collection_names()
DocCollectionMissing(collection_name, listed) ==
    collection_name \notin listed

\* where the loops go after index x of collection c
DocInitAfterIndex(st) ==
    IF st.x < Len(DocSchema[st.c].indexes)
    THEN [st EXCEPT !.x = @ + 1]
    ELSE IF st.c < Len(DocSchema)
    THEN [st EXCEPT !.c = @ + 1, !.x = 0, !.pc = "check"]
    ELSE [st EXCEPT !.c = @ + 1, !.x = 1, !.pc = "system"]

DocInitFail(st, injected, what) ==
    [st EXCEPT !.injected = injected, !.error = Some(what), !.pc = "except"]

\* lines 191-234: enter the try block and the loop over the collections
DocInitStart(p) ==
    /\ doc_init[p].pc = "call"
    /\ doc_init' = [doc_init EXCEPT ![p].pc = "check", ![p].c = 1,
                                    ![p].before = doc_db[doc_init[p].db]]
    /\ UNCHANGED doc_db
    /\ UNCHANGED docInitFrame

\* line 236: list the collections and look for this one
DocInitCheck(p, injected) ==
    /\ doc_init[p].pc = "check"
    /\ LET st == doc_init[p]
           collection_name == DocSchema[st.c].name
       IN doc_init' =
            [doc_init EXCEPT ![p] =
                IF injected
                THEN DocInitFail(st, TRUE, "list_collection_names failed")
                ELSE IF DocCollectionMissing(collection_name,
                                             doc_db[st.db].collections)
                THEN [st EXCEPT !.pc = "create"]
                ELSE [st EXCEPT !.pc = "index", !.x = 1]]
    /\ UNCHANGED doc_db
    /\ UNCHANGED docInitFrame

\* line 237: db.create_collection(collection_name), which fails on a
\* collection that exists
DocInitCreate(p, injected) ==
    /\ doc_init[p].pc = "create"
    /\ LET st == doc_init[p]
           collection_name == DocSchema[st.c].name
           exists == collection_name \in doc_db[st.db].collections
       IN IF injected \/ exists
          THEN /\ doc_init' =
                    [doc_init EXCEPT ![p] =
                        DocInitFail(st, injected,
                                    IF injected THEN "create_collection failed"
                                    ELSE "collection already exists")]
               /\ UNCHANGED doc_db
          ELSE /\ doc_init' =
                    [doc_init EXCEPT ![p].created = @ \cup {collection_name},
                                     ![p].x = 1,
                                     ![p].pc = "index"]
               /\ doc_db' =
                    [doc_db EXCEPT ![st.db].collections = @ \cup {collection_name}]
    /\ UNCHANGED docInitFrame

\* lines 243-261: create_index for one declared index; an OperationFailure
\* saying 'already exists' is swallowed, any other failure propagates
DocInitIndex(p, injected) ==
    /\ doc_init[p].pc = "index"
    /\ LET st == doc_init[p]
           spec == DocSchema[st.c].indexes[st.x]
           index == [collection |-> DocSchema[st.c].name, key |-> spec.key,
                     options |-> spec.options]
           done == DocCreateIndex(doc_db[st.db], index)
       IN IF injected
          THEN /\ doc_init' =
                    [doc_init EXCEPT ![p] =
                        DocInitFail(st, TRUE, "create_index failed")]
               /\ UNCHANGED doc_db
          ELSE /\ doc_init' =
                    [doc_init EXCEPT ![p] =
                        DocInitAfterIndex(
                            IF done.raised = "already exists"
                            THEN [st EXCEPT !.tolerated = @ + 1]
                            ELSE st)]
               /\ doc_db' = [doc_db EXCEPT ![st.db] = done.catalog]
    /\ UNCHANGED docInitFrame

\* lines 264-266: the system indexes, outside the inner try: any failure
\* propagates
DocInitSystemIndex(p, injected) ==
    /\ doc_init[p].pc = "system"
    /\ LET st == doc_init[p]
           done == DocCreateIndex(doc_db[st.db], DocSystemIndexes[st.x])
       IN IF injected \/ done.raised # ""
          THEN /\ doc_init' =
                    [doc_init EXCEPT ![p] =
                        DocInitFail(st, injected,
                                    IF injected THEN "create_index failed"
                                    ELSE "index already exists")]
               /\ UNCHANGED doc_db
          ELSE /\ doc_init' =
                    [doc_init EXCEPT ![p] =
                        IF st.x < Len(DocSystemIndexes)
                        THEN [st EXCEPT !.x = @ + 1]
                        ELSE [st EXCEPT !.x = @ + 1, !.pc = "returned"]]
               /\ doc_db' = [doc_db EXCEPT ![st.db] = done.catalog]
    /\ UNCHANGED docInitFrame

\* lines 270-272: except Exception: log and re-raise
DocInitExcept(p) ==
    /\ doc_init[p].pc = "except"
    /\ doc_init' = [doc_init EXCEPT ![p].pc = "raised"]
    /\ UNCHANGED doc_db
    /\ UNCHANGED docInitFrame

DocInitNext ==
    \/ \E p \in Procs : DocInitStart(p)
    \/ \E p \in Procs, injected \in BOOLEAN : DocInitCheck(p, injected)
    \/ \E p \in Procs, injected \in BOOLEAN : DocInitCreate(p, injected)
    \/ \E p \in Procs, injected \in BOOLEAN : DocInitIndex(p, injected)
    \/ \E p \in Procs, injected \in BOOLEAN : DocInitSystemIndex(p, injected)
    \/ \E p \in Procs : DocInitExcept(p)

-----------------------------------------------------------------------------
(* The PostgreSQL server and the handler's connections *)

\* The schema objects init_pgvector creates, in the order of its statements.
PgStatements ==
    <<"extension vector", "table embeddings", "index idx_embeddings_document_id",
      "index idx_embeddings_embedding", "function update_updated_at_column",
      "trigger update_embeddings_updated_at">>

PgObjects ==
    {PgStatements[k] : k \in 1..Len(PgStatements)}

\* How each statement treats an object that is already there:
\*   CREATE ... IF NOT EXISTS skips it, CREATE OR REPLACE replaces it,
\*   a plain CREATE fails.
PgStatementMode(k) ==
    CASE k \in {1, 2, 3, 4} -> "if not exists"
      [] k = 5 -> "or replace"
      [] k = 6 -> "plain"

\* A catalog the server can hold: an index or a trigger needs its table, the
\* trigger needs its function.
PgValidCatalog(c) ==
    /\ PgStatements[3] \in c => PgStatements[2] \in c
    /\ PgStatements[4] \in c => PgStatements[2] \in c
    /\ PgStatements[6] \in c => (PgStatements[2] \in c /\ PgStatements[5] \in c)

PgCatalogs ==
    {c \in SUBSET PgObjects : PgValidCatalog(c)}

PgNoCatalog ==
    [d \in DbNames |-> {}]

\* psycopg2.connect(database=..., **conn_params): a session outside autocommit
PgNewConnectionAutocommit(database) ==
    [database |-> database, closed |-> FALSE, autocommit |-> TRUE, closes |-> 0]

PgNewConnection(database) ==
    [database |-> database, closed |-> FALSE, autocommit |-> FALSE, closes |-> 0]

-----------------------------------------------------------------------------
(* init_postgres.py: init_pgvector *)

\* The function before it is called.
\*   pc         "idle" | "call" | "execute" | "commit" | "except" | "returned"
\*              | "raised"
\*   connection index into pg_conns of the connection passed in
\*   k          the statement cursor.execute runs next (1..6)
\*   txn        objects created in the open transaction, not yet committed
\*   before     the catalog when the function was called
\*   commits, rollbacks   calls of connection.commit / connection.rollback
\*   runs       calls of the function so far
\*   previous   how the earlier calls ended: "committed" or "raised"
\*   injected   TRUE when the server failed a statement for a reason of its
\*              own (permissions, timeout, missing extension binaries)
\*   error      the raised error, or None
PgInitIdle ==
    [pc |-> "idle", connection |-> 0, k |-> 0, txn |-> {}, before |-> {},
     commits |-> 0, rollbacks |-> 0, runs |-> 0, previous |-> <<>>,
     injected |-> FALSE, error |-> None]

PgInitCall(st, connection) ==
    [st EXCEPT !.pc = "call", !.connection = connection, !.k = 0, !.txn = {},
               !.commits = 0, !.rollbacks = 0, !.runs = @ + 1,
               !.previous = CASE st.pc = "returned" -> Append(@, "committed")
                              [] st.pc = "raised" -> Append(@, "raised")
                              [] OTHER -> @,
               !.injected = FALSE, !.error = None]

pgInitFrame ==
    <<doc_env, doc_wait, doc_db, doc_init, pg_env, pg_wait, pg_conns, doc_h, pg_h>>

PgInitDatabase ==
    pg_conns[pg_init.connection].database

\* what the session of init_pgvector sees: the committed catalog and its own
\* uncommitted objects
PgInitView ==
    pg_db.catalog[PgInitDatabase] \cup pg_init.txn

\* line 113: with connection.cursor() as cursor
PgInitStart ==
    /\ pg_init.pc = "call"
    /\ pg_init' = [pg_init EXCEPT !.pc = "execute", !.k = 1,
                                  !.before = pg_db.catalog[PgInitDatabase]]
    /\ UNCHANGED <<pg_db>>
    /\ UNCHANGED pgInitFrame

\* lines 115-163: cursor.execute of statement k.  The statement fails when
\* the server fails it (injected) or when a plain CREATE meets its object.
PgInitExecute(injected) ==
    /\ pg_init.pc = "execute"
    /\ pg_init.k \in 1..Len(PgStatements)
    /\ LET k == pg_init.k
           object == PgStatements[k]
           exists == object \in PgInitView
           fails == injected \/ (exists /\ PgStatementMode(k) = "plain")
           autocommit == pg_conns[pg_init.connection].autocommit
       IN IF fails
          THEN /\ pg_init' =
                    [pg_init EXCEPT
                        !.injected = injected,
                        !.error = Some([statement |-> k,
                                        kind |-> IF injected THEN "server error"
                                                 ELSE "already exists"]),
                        !.pc = "except"]
               /\ UNCHANGED pg_db
          ELSE /\ pg_init' =
                    [pg_init EXCEPT
                        !.txn = IF autocommit THEN @ ELSE @ \cup {object},
                        !.k = k + 1,
                        !.pc = IF k = Len(PgStatements) THEN "commit" ELSE "execute"]
               /\ pg_db' =
                    IF autocommit
                    THEN [pg_db EXCEPT !.catalog[PgInitDatabase] = @ \cup {object}]
                    ELSE pg_db
    /\ UNCHANGED pgInitFrame

\* line 167: connection.commit()
PgInitCommit ==
    /\ pg_init.pc = "commit"
    /\ pg_db' = [pg_db EXCEPT !.catalog[PgInitDatabase] = @ \cup pg_init.txn]
    /\ pg_init' = [pg_init EXCEPT !.txn = {}, !.commits = @ + 1,
                                  !.pc = "returned"]
    /\ UNCHANGED pgInitFrame

\* lines 169-172: except Exception: rollback and re-raise
PgInitExcept ==
    /\ pg_init.pc = "except"
    /\ pg_init' = [pg_init EXCEPT !.txn = {}, !.rollbacks = @ + 1,
                                  !.pc = "raised"]
    /\ UNCHANGED <<pg_db>>
    /\ UNCHANGED pgInitFrame

PgInitNext ==
    \/ PgInitStart
    \/ \E injected \in BOOLEAN : PgInitExecute(injected)
    \/ PgInitCommit
    \/ PgInitExcept

-----------------------------------------------------------------------------
(* The invocation event and the configuration lookups of both handlers *)

\* A test that only None fails.
TruthyNotNone(opt) ==
    opt # None

\* a str is true in `if not x` unless it is None or empty
Truthy(opt) ==
    opt # None /\ opt # Some("")

\* d.get(key, fallback) where the fallback is itself optional
FirstOf(opt, fallback) ==
    IF opt # None THEN opt ELSE fallback

\* A lookup that asks the environment before the event.
ResolveEnvironFirst(resource_props, event, environ, default) ==
    FirstOf(resource_props, FirstOf(environ, FirstOf(event, default)))

\* resource_props.get(K, event.get(K, os.environ.get(E, default)))
Resolve(resource_props, event, environ, default) ==
    FirstOf(resource_props, FirstOf(event, FirstOf(environ, default)))

NoResourceProperties ==
    [DBHost |-> None, DBPort |-> None, DBName |-> None, SecretId |-> None,
     DBUser |-> None, DBPassword |-> None]

\* event.get('ResourceProperties', {})
ResourcePropertiesOf(event) ==
    Get(event.ResourceProperties, NoResourceProperties)

NoEvent ==
    [RequestType |-> None, PhysicalResourceId |-> None,
     ResourceProperties |-> None, DBHost |-> None, DBPort |-> None,
     DBName |-> None, SecretId |-> None, DBUser |-> None, DBPassword |-> None]

RequestTypes ==
    {None, Some("Create"), Some("Update"), Some("Delete")}

\* The events drawn for an invocation.  An identifier is the sequence of the
\* parts an f-string joins with '-'.
HandlerEvents ==
    {[NoEvent EXCEPT !.RequestType = request_type,
                     !.PhysicalResourceId = physical_resource_id,
                     !.ResourceProperties = resource_props,
                     !.DBPassword = password] :
        request_type \in RequestTypes,
        physical_resource_id \in {None, Some(<<"previous-id">>)},
        resource_props \in {None} \cup
            {Some([NoResourceProperties EXCEPT !.DBHost = h, !.DBName = n,
                                               !.SecretId = s]) :
                h \in {None, Some("cluster.example")},
                n \in {None, Some("app")},
                s \in {None, Some("secret/db")}},
        password \in {None, Some("event-password")}}

\* The environments drawn for an invocation: the retry budget is kept small,
\* the delay is the default.
HandlerEnvs ==
    {[NoEnv EXCEPT !.DB_HOST = h, !.MAX_RETRIES = Some(2)] :
        h \in {None, Some("env.example")}}

\* What secrets_client.get_secret_value and json.loads can do: deliver the
\* secret's dict, or raise.
SecretOutcomes ==
    {[kind |-> "ok", username |-> u, password |-> p] :
        u \in {None, Some("admin")},
        p \in {None, Some(""), Some("secret-password")}}
    \cup {[kind |-> k, username |-> None, password |-> None] :
            k \in {"AccessDeniedException", "ResourceNotFoundException", "other"}}

\* get_db_credentials (the same in both files): the secret, or an Exception
\* whose text depends on what the client raised
GetDbCredentials(secret_id, outcome) ==
    IF outcome.kind = "ok"
    THEN [raised |-> FALSE, username |-> outcome.username,
          password |-> outcome.password, error |-> None]
    ELSE [raised |-> TRUE, username |-> None, password |-> None,
          error |-> Some([kind |-> "Exception",
                          from |-> CASE outcome.kind = "AccessDeniedException"
                                          -> "secret access denied"
                                     [] outcome.kind = "ResourceNotFoundException"
                                          -> "secret not found"
                                     [] OTHER -> "secret retrieval failed"])]

-----------------------------------------------------------------------------
(* init_postgres.py: safe_close_connection and handler *)

\* the depth at which the interpreter raises RecursionError
RecursionLimit ==
    3

\* lines 99-107.  The connection after the call made at the given depth of
\* the stack.  On an open connection line 104 calls safe_close_connection
\* again, never connection.close(): the calls nest until the interpreter
\* raises RecursionError, which the `except Exception` of a nested frame
\* catches and logs; every frame then returns.
RECURSIVE PgSafeCloseConnection(_, _)
PgSafeCloseConnection(connection, depth) ==
    IF connection.closed THEN connection
    ELSE IF depth >= RecursionLimit THEN connection
    ELSE PgSafeCloseConnection(connection, depth + 1)

\* line 181: event.get('PhysicalResourceId', 'postgres-init')
PgDefaultPhysicalResourceId ==
    <<"postgres-init">>

PgDefaultPort ==
    "5432"

PgDefaultUser ==
    "postgres"

\* line 185: request_type in ['Delete', 'Update']
PgIsLifecycleNoOp(request_type) ==
    request_type \in {Some("Delete"), Some("Update")}

\* What psycopg2.connect(database=...) can do in the handler:
\*   server       the server answers: a session, or OperationalError
\*                'database "..." does not exist'
\*   operational  OperationalError with any other text
\*   other        an exception of another class
PgConnectOutcomes ==
    {"server", "operational", "other"}

\* The handler before it is invoked.
\*   pc          "idle" | "entry" | "resolve" | "credentials" | "wait"
\*               | "in_wait" | "connect" | "admin_connect" | "check_db"
\*               | "create_db" | "admin_close" | "reconnect" | "init"
\*               | "in_init" | "close" | "respond" | "except" | "returned"
\*               | "raised"
\*   connection  index into pg_conns of the local `connection`; 0 while the
\*               name is unbound
\*   secret_fetches  calls of get_db_credentials; credentials: the secret
\*               it returned, or None
\*   response    the value returned, or None
\*   failure_response  the dict the except block builds before it re-raises
\*   error       the exception in flight or raised, or None
\*   before      the server when the handler was invoked
\*   log         what the handler asked of the server after wait_for_db, in
\*               order, with what came of it
PgHandlerIdle ==
    [pc |-> "idle", event |-> NoEvent, physical_resource_id |-> None,
     request_type |-> None, db_host |-> None, db_port |-> None,
     db_name |-> None, secret_id |-> None, db_user |-> None,
     db_password |-> None, credentials |-> None, connection |-> 0,
     secret_fetches |-> 0,
     response |-> None, failure_response |-> None, error |-> None,
     before |-> [databases |-> {}, catalog |-> PgNoCatalog], log |-> <<>>]

PgHandlerCall(event, server) ==
    [PgHandlerIdle EXCEPT !.pc = "entry", !.event = event, !.before = server]

pgHandlerFrame ==
    <<doc_env, doc_wait, doc_db, doc_init, doc_h, pg_env>>

PgHandlerRaise(kind, from) ==
    [pg_h EXCEPT !.pc = "except", !.error = Some([kind |-> kind, from |-> from])]

PgLogged(st, op, result) ==
    [st EXCEPT !.log = Append(@, [op |-> op, result |-> result])]

\* lines 177-198: the Delete / Update branch returns before the try block
PgHandlerEntry ==
    /\ pg_h.pc = "entry"
    /\ LET physical_resource_id ==
               Get(pg_h.event.PhysicalResourceId, PgDefaultPhysicalResourceId)
           request_type == pg_h.event.RequestType
       IN pg_h' =
            IF PgIsLifecycleNoOp(request_type)
            THEN [pg_h EXCEPT
                    !.physical_resource_id = Some(physical_resource_id),
                    !.request_type = request_type,
                    !.response =
                        Some([PhysicalResourceId |-> Some(physical_resource_id),
                              Data |-> Some(<<Get(request_type, ""),
                                              "completed successfully">>),
                              statusCode |-> None, body |-> None]),
                    !.pc = "returned"]
            ELSE [pg_h EXCEPT
                    !.physical_resource_id = Some(physical_resource_id),
                    !.request_type = request_type,
                    !.pc = "resolve"]
    /\ UNCHANGED <<pg_wait, pg_db, pg_conns, pg_init>>
    /\ UNCHANGED pgHandlerFrame

\* lines 203-210: the connection details, then `if not db_host`
PgHandlerResolve ==
    /\ pg_h.pc = "resolve"
    /\ LET event == pg_h.event
           resource_props == ResourcePropertiesOf(event)
           db_host == Resolve(resource_props.DBHost, event.DBHost,
                              pg_env.DB_HOST, None)
           db_port == Resolve(resource_props.DBPort, event.DBPort,
                              pg_env.DB_PORT, Some(PgDefaultPort))
           db_name == Resolve(resource_props.DBName, event.DBName,
                              pg_env.DB_NAME, Some("librechat"))
           secret_id == Resolve(resource_props.SecretId, event.SecretId,
                                pg_env.DB_SECRET_ID, None)
           resolved == [pg_h EXCEPT !.db_host = db_host, !.db_port = db_port,
                                    !.db_name = db_name, !.secret_id = secret_id]
       IN pg_h' =
            IF ~Truthy(db_host)
            THEN [resolved EXCEPT
                    !.pc = "except",
                    !.error = Some([kind |-> "ValueError",
                                    from |-> "Database host not provided"])]
            ELSE [resolved EXCEPT !.pc = "credentials"]
    /\ UNCHANGED <<pg_wait, pg_db, pg_conns, pg_init>>
    /\ UNCHANGED pgHandlerFrame

\* lines 215-229: the credentials, then `if not db_password`
PgHandlerCredentials(outcome) ==
    /\ pg_h.pc = "credentials"
    /\ LET event == pg_h.event
           credentials == GetDbCredentials(pg_h.secret_id, outcome)
           password_missing ==
               [kind |-> "ValueError", from |-> "Database password not provided"]
       IN pg_h' =
            IF Truthy(pg_h.secret_id)
            THEN IF credentials.raised
                 THEN [pg_h EXCEPT !.secret_fetches = @ + 1,
                                   !.error = credentials.error,
                                   !.pc = "except"]
                 ELSE [pg_h EXCEPT
                         !.secret_fetches = @ + 1,
                         !.credentials = Some([username |-> credentials.username,
                                               password |-> credentials.password]),
                         !.db_user = Some(Get(credentials.username, PgDefaultUser)),
                         !.db_password = credentials.password,
                         !.error = IF Truthy(credentials.password) THEN None
                                   ELSE Some(password_missing),
                         !.pc = IF Truthy(credentials.password) THEN "wait"
                                ELSE "except"]
            ELSE LET db_user == FirstOf(event.DBUser,
                                    FirstOf(pg_env.DB_USER, Some(PgDefaultUser)))
                     db_password == FirstOf(event.DBPassword, pg_env.DB_PASSWORD)
                 IN [pg_h EXCEPT
                       !.db_user = db_user,
                       !.db_password = db_password,
                       !.error = IF Truthy(db_password) THEN None
                                 ELSE Some(password_missing),
                       !.pc = IF Truthy(db_password) THEN "wait" ELSE "except"]
    /\ UNCHANGED <<pg_wait, pg_db, pg_conns, pg_init>>
    /\ UNCHANGED pgHandlerFrame

\* line 232: wait_for_db(db_host, db_port, db_user, db_password)
PgHandlerWait ==
    /\ pg_h.pc = "wait"
    /\ pg_wait' = PgWaitCall(None, None)
    /\ pg_h' = [pg_h EXCEPT !.pc = "in_wait"]
    /\ UNCHANGED <<pg_db, pg_conns, pg_init>>
    /\ UNCHANGED pgHandlerFrame

\* wait_for_db has returned, or its exception reaches the except block
PgHandlerAfterWait ==
    /\ pg_h.pc = "in_wait"
    /\ pg_wait.pc \in {"returned", "raised"}
    /\ pg_h' = IF pg_wait.pc = "returned"
               THEN [pg_h EXCEPT !.pc = "connect"]
               ELSE [pg_h EXCEPT !.pc = "except",
                                 !.error = Some([kind |-> "Exception",
                                                 from |-> "wait_for_db"])]
    /\ UNCHANGED <<pg_wait, pg_db, pg_conns, pg_init>>
    /\ UNCHANGED pgHandlerFrame

\* lines 246-250 and 276-278: connect to the target database
PgHandlerConnect(outcome) ==
    /\ pg_h.pc = "connect"
    /\ LET db_name == Get(pg_h.db_name, "")
       IN CASE outcome = "server" /\ db_name \in pg_db.databases ->
                 /\ pg_conns' = Append(pg_conns, PgNewConnection(db_name))
                 /\ pg_h' = PgLogged([pg_h EXCEPT !.connection = Len(pg_conns) + 1,
                                                  !.pc = "init"],
                                      "connect", "ok")
            [] outcome = "server" /\ db_name \notin pg_db.databases ->
                 /\ pg_conns' = pg_conns
                 /\ pg_h' = PgLogged([pg_h EXCEPT !.pc = "admin_connect"],
                                      "connect", "does not exist")
            [] outcome = "operational" ->
                 /\ pg_conns' = pg_conns
                 /\ pg_h' = PgLogged(PgHandlerRaise("OperationalError", "connect"),
                                      "connect", "operational")
            [] OTHER ->
                 /\ pg_conns' = pg_conns
                 /\ pg_h' = PgLogged(PgHandlerRaise("Exception", "connect"),
                                      "connect", "other")
    /\ UNCHANGED <<pg_wait, pg_db, pg_init>>
    /\ UNCHANGED pgHandlerFrame

\* lines 255-256: connect to 'postgres' and switch the session to autocommit
PgHandlerAdminConnect(outcome) ==
    /\ pg_h.pc = "admin_connect"
    /\ IF outcome = "server"
       THEN /\ pg_conns' = Append(pg_conns,
                                  [PgNewConnection("postgres")
                                      EXCEPT !.autocommit = TRUE])
            /\ pg_h' = PgLogged([pg_h EXCEPT !.connection = Len(pg_conns) + 1,
                                             !.pc = "check_db"],
                                 "connect postgres", "ok")
       ELSE /\ pg_conns' = pg_conns
            /\ pg_h' = PgLogged(PgHandlerRaise(IF outcome = "operational"
                                               THEN "OperationalError"
                                               ELSE "Exception",
                                               "connect postgres"),
                                 "connect postgres", "error")
    /\ UNCHANGED <<pg_wait, pg_db, pg_init>>
    /\ UNCHANGED pgHandlerFrame

\* A recheck after which CREATE DATABASE is never issued.
PgHandlerCheckDbNeverCreates(injected) ==
    /\ pg_h.pc = "check_db"
    /\ pg_h' = PgLogged([pg_h EXCEPT !.pc = "admin_close"],
                        "recheck",
                        IF Get(pg_h.db_name, "") \in pg_db.databases
                        THEN "present" ELSE "absent")
    /\ UNCHANGED <<pg_wait, pg_db, pg_conns, pg_init>>
    /\ UNCHANGED pgHandlerFrame

\* lines 258-265: SELECT 1 FROM pg_database WHERE datname = db_name
PgHandlerCheckDb(injected) ==
    /\ pg_h.pc = "check_db"
    /\ pg_h' = IF injected
               THEN PgLogged(PgHandlerRaise("Error", "select pg_database"),
                             "recheck", "error")
               ELSE IF Get(pg_h.db_name, "") \in pg_db.databases
                    THEN PgLogged([pg_h EXCEPT !.pc = "admin_close"],
                                  "recheck", "present")
                    ELSE PgLogged([pg_h EXCEPT !.pc = "create_db"],
                                  "recheck", "absent")
    /\ UNCHANGED <<pg_wait, pg_db, pg_conns, pg_init>>
    /\ UNCHANGED pgHandlerFrame

\* line 268: CREATE DATABASE, which fails on a database that exists
PgHandlerCreateDb(injected) ==
    /\ pg_h.pc = "create_db"
    /\ LET db_name == Get(pg_h.db_name, "")
       IN IF injected \/ db_name \in pg_db.databases
          THEN /\ pg_h' = PgLogged(PgHandlerRaise(IF injected
                                                  THEN "OperationalError"
                                                  ELSE "DuplicateDatabase",
                                                  "create database"),
                                    "create database", "error")
               /\ pg_db' = pg_db
          ELSE /\ pg_h' = PgLogged([pg_h EXCEPT !.pc = "admin_close"],
                                    "create database", "ok")
               /\ pg_db' = [pg_db EXCEPT !.databases = @ \cup {db_name}]
    /\ UNCHANGED <<pg_wait, pg_conns, pg_init>>
    /\ UNCHANGED pgHandlerFrame

\* line 271: safe_close_connection(connection) on the 'postgres' session
PgHandlerAdminClose ==
    /\ pg_h.pc = "admin_close"
    /\ pg_conns' = [pg_conns EXCEPT ![pg_h.connection] =
                        PgSafeCloseConnection(@, 1)]
    /\ pg_h' = [pg_h EXCEPT !.pc = "reconnect"]
    /\ UNCHANGED <<pg_wait, pg_db, pg_init>>
    /\ UNCHANGED pgHandlerFrame

\* line 274: connect to the database that now exists.  On failure the name
\* `connection` still refers to the 'postgres' session.
PgHandlerReconnect(outcome) ==
    /\ pg_h.pc = "reconnect"
    /\ LET db_name == Get(pg_h.db_name, "")
       IN IF outcome = "server" /\ db_name \in pg_db.databases
          THEN /\ pg_conns' = Append(pg_conns, PgNewConnection(db_name))
               /\ pg_h' = PgLogged([pg_h EXCEPT !.connection = Len(pg_conns) + 1,
                                                !.pc = "init"],
                                    "reconnect", "ok")
          ELSE /\ pg_conns' = pg_conns
               /\ pg_h' = PgLogged(PgHandlerRaise(IF outcome = "other"
                                                  THEN "Exception"
                                                  ELSE "OperationalError",
                                                  "reconnect"),
                                    "reconnect", "error")
    /\ UNCHANGED <<pg_wait, pg_db, pg_init>>
    /\ UNCHANGED pgHandlerFrame

\* line 281: init_pgvector(connection)
PgHandlerInitPgvector ==
    /\ pg_h.pc = "init"
    /\ pg_init' = PgInitCall(PgInitIdle, pg_h.connection)
    /\ pg_h' = [pg_h EXCEPT !.pc = "in_init"]
    /\ UNCHANGED <<pg_wait, pg_db, pg_conns>>
    /\ UNCHANGED pgHandlerFrame

\* init_pgvector has returned, or its exception reaches the except block
PgHandlerAfterInit ==
    /\ pg_h.pc = "in_init"
    /\ pg_init.pc \in {"returned", "raised"}
    /\ pg_h' = IF pg_init.pc = "returned"
               THEN [pg_h EXCEPT !.pc = "close"]
               ELSE [pg_h EXCEPT !.pc = "except",
                                 !.error = Some([kind |-> "Error",
                                                 from |-> "init_pgvector"])]
    /\ UNCHANGED <<pg_wait, pg_db, pg_conns, pg_init>>
    /\ UNCHANGED pgHandlerFrame

\* line 284: safe_close_connection(connection)
PgHandlerClose ==
    /\ pg_h.pc = "close"
    /\ pg_conns' = [pg_conns EXCEPT ![pg_h.connection] =
                        PgSafeCloseConnection(@, 1)]
    /\ pg_h' = [pg_h EXCEPT !.pc = "respond"]
    /\ UNCHANGED <<pg_wait, pg_db, pg_init>>
    /\ UNCHANGED pgHandlerFrame

\* lines 286-303: the success response
\* line 298: f"postgres-init-{db_host}-{db_name}"
PgSuccessPhysicalResourceId(db_host, db_name) ==
    <<"postgres-init", db_host, db_name>>

\* lines 286-303: the success response and `return`
PgHandlerRespond ==
    /\ pg_h.pc = "respond"
    /\ LET body == [message |-> "PostgreSQL initialized successfully",
                    database |-> pg_h.db_name,
                    extensions |-> <<"pgvector">>]
           custom == Truthy(pg_h.event.RequestType)
       IN pg_h' =
            [pg_h EXCEPT
                !.response =
                    Some([statusCode |-> Some(200), body |-> Some(body),
                          PhysicalResourceId |->
                              IF custom
                              THEN Some(PgSuccessPhysicalResourceId(
                                            Get(pg_h.db_host, ""),
                                            Get(pg_h.db_name, "")))
                              ELSE None,
                          Data |-> IF custom
                                   THEN Some(<<"PostgreSQL initialized successfully">>)
                                   ELSE None]),
                !.pc = "returned"]
    /\ UNCHANGED <<pg_wait, pg_db, pg_conns, pg_init>>
    /\ UNCHANGED pgHandlerFrame

\* lines 305-340: log, safe_close_connection if `connection` is bound, build
\* the failure response, re-raise.  request_type is never 'Delete' here.
PgHandlerExcept ==
    /\ pg_h.pc = "except"
    /\ pg_conns' = IF pg_h.connection # 0
                   THEN [pg_conns EXCEPT ![pg_h.connection] =
                            PgSafeCloseConnection(@, 1)]
                   ELSE pg_conns
    /\ LET custom == Truthy(pg_h.event.RequestType)
           failure == [statusCode |-> Some(500), body |-> pg_h.error,
                       PhysicalResourceId |->
                           IF custom THEN pg_h.physical_resource_id ELSE None,
                       Reason |-> IF custom THEN pg_h.error ELSE None]
       IN pg_h' =
            IF pg_h.request_type = Some("Delete")
            THEN [pg_h EXCEPT
                    !.response =
                        Some([PhysicalResourceId |-> pg_h.physical_resource_id,
                              Data |-> Some(<<"Delete completed (with warnings)">>),
                              statusCode |-> None, body |-> None]),
                    !.pc = "returned"]
            ELSE [pg_h EXCEPT !.failure_response = Some(failure),
                              !.pc = "raised"]
    /\ UNCHANGED <<pg_wait, pg_db, pg_init>>
    /\ UNCHANGED pgHandlerFrame

\* What the caller of the handler gets: the value of a `return`, or the
\* exception of the bare `raise` at line 340.  The dict built at lines
\* 328-338 is a local that nothing returns or sends.
PgHandlerObserved ==
    CASE pg_h.pc = "returned" -> Get(pg_h.response, [statusCode |-> None])
      [] pg_h.pc = "raised" ->
            [errorType |-> Get(pg_h.error, [kind |-> "", from |-> ""]).kind,
             errorMessage |-> Get(pg_h.error, [kind |-> "", from |-> ""]).from]
      [] OTHER -> [pending |-> TRUE]

PgHandlerNext ==
    \/ PgHandlerEntry
    \/ PgHandlerResolve
    \/ \E outcome \in SecretOutcomes : PgHandlerCredentials(outcome)
    \/ PgHandlerWait
    \/ PgHandlerAfterWait
    \/ \E outcome \in PgConnectOutcomes : PgHandlerConnect(outcome)
    \/ \E outcome \in PgConnectOutcomes : PgHandlerAdminConnect(outcome)
    \/ \E injected \in BOOLEAN : PgHandlerCheckDb(injected)
    \/ \E injected \in BOOLEAN : PgHandlerCreateDb(injected)
    \/ PgHandlerAdminClose
    \/ \E outcome \in PgConnectOutcomes : PgHandlerReconnect(outcome)
    \/ PgHandlerInitPgvector
    \/ PgHandlerAfterInit
    \/ PgHandlerClose
    \/ PgHandlerRespond
    \/ PgHandlerExcept

-----------------------------------------------------------------------------
(* init_docdb.py: validate_network_connectivity and handler *)

\* What the three tests of validate_network_connectivity can meet.
DocDnsOutcomes ==
    {"ok", "gaierror", "other"}

DocTcpOutcomes ==
    {"ok", "refused", "exception"}

DocSecretTestOutcomes ==
    {"ok", "AccessDeniedException", "ResourceNotFoundException", "client error",
     "other"}

\* lines 44-54: the error the DNS test appends, if any
DocDnsErrors(outcome) ==
    CASE outcome = "ok" -> <<>>
      [] outcome = "gaierror" -> <<"DNS resolution failed">>
      [] OTHER -> <<"DNS test failed">>

\* lines 56-71: the error the TCP test appends, if any
DocTcpErrors(outcome) ==
    CASE outcome = "ok" -> <<>>
      [] outcome = "refused" -> <<"TCP connection failed with code">>
      [] OTHER -> <<"TCP connectivity test failed">>

\* lines 75-90: the error the Secrets Manager test appends, if any
DocSecretTestErrors(outcome) ==
    CASE outcome = "ok" -> <<>>
      [] outcome = "AccessDeniedException" -> <<"Access denied to Secrets Manager">>
      [] outcome = "ResourceNotFoundException" -> <<"Secret not found">>
      [] outcome = "client error" -> <<"Secrets Manager error">>
      [] OTHER -> <<"Secrets Manager test failed">>

\* A summary that lets a single error pass.
DocValidateRaisesOnSeveral(errors) ==
    Len(errors) > 1

\* line 105: `if errors:`
DocValidateRaises(errors) ==
    errors # <<>>

\* line 108: f"Network validation failed: {'; '.join(errors)}"
DocValidationMessage(errors) ==
    <<"Network validation failed">> \o errors

\* line 281: event.get('PhysicalResourceId', 'docdb-init')
DocDefaultPhysicalResourceId ==
    <<"docdb-init">>

DocDefaultPort ==
    "27017"

DocDefaultUser ==
    "docdbadmin"

DocIsLifecycleNoOpDeleteOnly(request_type) ==
    request_type = Some("Delete")

\* line 285: request_type in ['Delete', 'Update']
DocIsLifecycleNoOp(request_type) ==
    request_type \in {Some("Delete"), Some("Update")}

\* What db.list_collection_names() can do at line 365, after client.close():
\*   reopened   the driver reconnects the closed client and lists the names
\*   invalid    the driver refuses to use a closed client (InvalidOperation)
\*   failed     the reconnection or the command fails
DocListAfterCloseOutcomes ==
    {"reopened", "invalid", "failed"}

\* The handler before it is invoked.
\*   pc          "idle" | "entry" | "resolve" | "credentials" | "validate"
\*               | "validate_tcp" | "validate_secret" | "validate_summary"
\*               | "wait" | "in_wait" | "connect" | "init" | "in_init"
\*               | "close" | "respond" | "except" | "returned" | "raised"
\*   client      "unbound" while the name `client` is unbound, else "open" or
\*               "closed"; closes: calls of client.close();
\*               commands_after_close: database commands issued through the
\*               client after client.close()
\*   secret_fetches  calls of get_db_credentials; credentials: the secret
\*               it returned, or None
\*   checks      the network tests made, each with its outcome;
\*               validation_errors: the list `errors` of
\*               validate_network_connectivity; validation_message: the
\*               message of the exception it raised, or None
\*   response    the value returned, or None
\*   failure_response  the dict the except block builds before it re-raises
\*   error       the exception in flight or raised, or None
\*   before      the cluster when the handler was invoked
DocHandlerIdle ==
    [pc |-> "idle", event |-> NoEvent, physical_resource_id |-> None,
     request_type |-> None, db_host |-> None, db_port |-> None,
     db_name |-> None, secret_id |-> None, db_user |-> None,
     db_password |-> None, credentials |-> None, client |-> "unbound",
     closes |-> 0, commands_after_close |-> 0,
     secret_fetches |-> 0, checks |-> <<>>, validation_errors |-> <<>>,
     validation_message |-> None,
     response |-> None, failure_response |-> None, error |-> None,
     before |-> DocNoCatalogs]

DocHandlerCall(event, cluster) ==
    [DocHandlerIdle EXCEPT !.pc = "entry", !.event = event, !.before = cluster]

docHandlerFrame ==
    <<doc_env, pg_env, pg_wait, pg_db, pg_conns, pg_init, pg_h>>

DocHandlerRaise(kind, from) ==
    [doc_h EXCEPT !.pc = "except", !.error = Some([kind |-> kind, from |-> from])]

\* lines 277-297: the Delete / Update branch returns before the try block
DocHandlerEntry ==
    /\ doc_h.pc = "entry"
    /\ LET physical_resource_id ==
               Get(doc_h.event.PhysicalResourceId, DocDefaultPhysicalResourceId)
           request_type == doc_h.event.RequestType
       IN doc_h' =
            IF DocIsLifecycleNoOp(request_type)
            THEN [doc_h EXCEPT
                    !.physical_resource_id = Some(physical_resource_id),
                    !.request_type = request_type,
                    !.response =
                        Some([PhysicalResourceId |-> Some(physical_resource_id),
                              Data |-> Some(<<Get(request_type, ""),
                                              "completed successfully">>),
                              statusCode |-> None, body |-> None]),
                    !.pc = "returned"]
            ELSE [doc_h EXCEPT
                    !.physical_resource_id = Some(physical_resource_id),
                    !.request_type = request_type,
                    !.pc = "resolve"]
    /\ UNCHANGED <<doc_wait, doc_db, doc_init>>
    /\ UNCHANGED docHandlerFrame

\* lines 302-309: the connection details, then `if not db_host`
DocHandlerResolve ==
    /\ doc_h.pc = "resolve"
    /\ LET event == doc_h.event
           resource_props == ResourcePropertiesOf(event)
           db_host == Resolve(resource_props.DBHost, event.DBHost,
                              doc_env.DB_HOST, None)
           db_port == Resolve(resource_props.DBPort, event.DBPort,
                              doc_env.DB_PORT, Some(DocDefaultPort))
           db_name == Resolve(resource_props.DBName, event.DBName,
                              doc_env.DB_NAME, Some("librechat"))
           secret_id == Resolve(resource_props.SecretId, event.SecretId,
                                doc_env.DB_SECRET_ID, None)
           resolved == [doc_h EXCEPT !.db_host = db_host, !.db_port = db_port,
                                     !.db_name = db_name, !.secret_id = secret_id]
       IN doc_h' =
            IF ~Truthy(db_host)
            THEN [resolved EXCEPT
                    !.pc = "except",
                    !.error = Some([kind |-> "ValueError",
                                    from |-> "Database host not provided"])]
            ELSE [resolved EXCEPT !.pc = "credentials"]
    /\ UNCHANGED <<doc_wait, doc_db, doc_init>>
    /\ UNCHANGED docHandlerFrame

\* lines 312-321: the credentials, then `if not db_password`
DocHandlerCredentials(outcome) ==
    /\ doc_h.pc = "credentials"
    /\ LET event == doc_h.event
           credentials == GetDbCredentials(doc_h.secret_id, outcome)
           password_missing ==
               [kind |-> "ValueError", from |-> "Database password not provided"]
       IN doc_h' =
            IF Truthy(doc_h.secret_id)
            THEN IF credentials.raised
                 THEN [doc_h EXCEPT !.secret_fetches = @ + 1,
                                    !.error = credentials.error,
                                    !.pc = "except"]
                 ELSE [doc_h EXCEPT
                         !.secret_fetches = @ + 1,
                         !.credentials = Some([username |-> credentials.username,
                                               password |-> credentials.password]),
                         !.db_user = Some(Get(credentials.username, DocDefaultUser)),
                         !.db_password = credentials.password,
                         !.error = IF Truthy(credentials.password) THEN None
                                   ELSE Some(password_missing),
                         !.pc = IF Truthy(credentials.password) THEN "validate"
                                ELSE "except"]
            ELSE LET db_user == FirstOf(event.DBUser,
                                    FirstOf(doc_env.DB_USER, Some(DocDefaultUser)))
                     db_password == FirstOf(event.DBPassword, doc_env.DB_PASSWORD)
                 IN [doc_h EXCEPT
                       !.db_user = db_user,
                       !.db_password = db_password,
                       !.error = IF Truthy(db_password) THEN None
                                 ELSE Some(password_missing),
                       !.pc = IF Truthy(db_password) THEN "validate" ELSE "except"]
    /\ UNCHANGED <<doc_wait, doc_db, doc_init>>
    /\ UNCHANGED docHandlerFrame

\* line 327: validate_network_connectivity(db_host, db_port, secret_id);
\* lines 38-54: the list `errors` starts empty, then the DNS test
DocValidateDns(outcome) ==
    /\ doc_h.pc = "validate"
    /\ doc_h' = [doc_h EXCEPT
                    !.checks = Append(@, [test |-> "dns", outcome |-> outcome]),
                    !.validation_errors = @ \o DocDnsErrors(outcome),
                    !.pc = "validate_tcp"]
    /\ UNCHANGED <<doc_wait, doc_db, doc_init>>
    /\ UNCHANGED docHandlerFrame

\* lines 56-71: the TCP test; line 74: `if secret_id:`
DocValidateTcp(outcome) ==
    /\ doc_h.pc = "validate_tcp"
    /\ doc_h' = [doc_h EXCEPT
                    !.checks = Append(@, [test |-> "tcp", outcome |-> outcome]),
                    !.validation_errors = @ \o DocTcpErrors(outcome),
                    !.pc = IF Truthy(doc_h.secret_id) THEN "validate_secret"
                           ELSE "validate_summary"]
    /\ UNCHANGED <<doc_wait, doc_db, doc_init>>
    /\ UNCHANGED docHandlerFrame

\* lines 75-90: the Secrets Manager test
DocValidateSecret(outcome) ==
    /\ doc_h.pc = "validate_secret"
    /\ doc_h' = [doc_h EXCEPT
                    !.checks = Append(@, [test |-> "secret", outcome |-> outcome]),
                    !.validation_errors = @ \o DocSecretTestErrors(outcome),
                    !.pc = "validate_summary"]
    /\ UNCHANGED <<doc_wait, doc_db, doc_init>>
    /\ UNCHANGED docHandlerFrame

\* lines 92-111: the summary raises for a non-empty list, else returns True;
\* the exception reaches the except block of the handler
DocValidateSummary ==
    /\ doc_h.pc = "validate_summary"
    /\ doc_h' =
         IF DocValidateRaises(doc_h.validation_errors)
         THEN [DocHandlerRaise("Exception", "Network validation failed")
                  EXCEPT !.validation_message =
                             Some(DocValidationMessage(doc_h.validation_errors))]
         ELSE [doc_h EXCEPT !.pc = "wait"]
    /\ UNCHANGED <<doc_wait, doc_db, doc_init>>
    /\ UNCHANGED docHandlerFrame

\* line 333: wait_for_db(db_host, db_port, db_user, db_password)
DocHandlerWait ==
    /\ doc_h.pc = "wait"
    /\ doc_wait' = DocWaitCall(None, None)
    /\ doc_h' = [doc_h EXCEPT !.pc = "in_wait"]
    /\ UNCHANGED <<doc_db, doc_init>>
    /\ UNCHANGED docHandlerFrame

\* A handler that goes on to connect however wait_for_db ended.
DocHandlerAfterWaitIgnoresFailure ==
    /\ doc_h.pc = "in_wait"
    /\ doc_wait.pc \in {"returned", "raised"}
    /\ doc_h' = [doc_h EXCEPT !.pc = "connect"]
    /\ UNCHANGED <<doc_wait, doc_db, doc_init>>
    /\ UNCHANGED docHandlerFrame

\* wait_for_db has returned, or its exception reaches the except block
DocHandlerAfterWait ==
    /\ doc_h.pc = "in_wait"
    /\ doc_wait.pc \in {"returned", "raised"}
    /\ doc_h' = IF doc_wait.pc = "returned"
                THEN [doc_h EXCEPT !.pc = "connect"]
                ELSE DocHandlerRaise("Exception", "wait_for_db")
    /\ UNCHANGED <<doc_wait, doc_db, doc_init>>
    /\ UNCHANGED docHandlerFrame

\* lines 340-352: MongoClient(conn_string, ...) and db = client[db_name]
DocHandlerConnect(ok) ==
    /\ doc_h.pc = "connect"
    /\ doc_h' = IF ok THEN [doc_h EXCEPT !.client = "open", !.pc = "init"]
                ELSE DocHandlerRaise("Exception", "MongoClient")
    /\ UNCHANGED <<doc_wait, doc_db, doc_init>>
    /\ UNCHANGED docHandlerFrame

\* line 355: init_collections(db)
DocHandlerInitCollections ==
    /\ doc_h.pc = "init"
    /\ doc_init' = [doc_init EXCEPT
                       ![1] = DocInitCall(DocInitIdle, Get(doc_h.db_name, ""))]
    /\ doc_h' = [doc_h EXCEPT !.pc = "in_init"]
    /\ UNCHANGED <<doc_wait, doc_db>>
    /\ UNCHANGED docHandlerFrame

\* init_collections has returned, or its exception reaches the except block
DocHandlerAfterInit ==
    /\ doc_h.pc = "in_init"
    /\ doc_init[1].pc \in {"returned", "raised"}
    /\ doc_h' = IF doc_init[1].pc = "returned"
                THEN [doc_h EXCEPT !.pc = "close"]
                ELSE DocHandlerRaise("Exception", "init_collections")
    /\ UNCHANGED <<doc_wait, doc_db, doc_init>>
    /\ UNCHANGED docHandlerFrame

\* line 358: client.close()
DocHandlerClose ==
    /\ doc_h.pc = "close"
    /\ doc_h' = [doc_h EXCEPT !.client = "closed", !.closes = @ + 1,
                              !.pc = "respond"]
    /\ UNCHANGED <<doc_wait, doc_db, doc_init>>
    /\ UNCHANGED docHandlerFrame

\* The id of a success response kept at the id the invocation started with.
DocSuccessPhysicalResourceIdKept(db_host, db_name) ==
    Get(doc_h.physical_resource_id, <<>>)

\* line 372: f"docdb-init-{db_host}-{db_name}"
DocSuccessPhysicalResourceId(db_host, db_name) ==
    <<"docdb-init", db_host, db_name>>

\* lines 360-377: the success response; line 365 lists the collections
\* through the client that line 358 closed
DocHandlerRespond(outcome) ==
    /\ doc_h.pc = "respond"
    /\ LET db_name == Get(doc_h.db_name, "")
           body == [message |-> "DocumentDB initialized successfully",
                    database |-> doc_h.db_name,
                    collections |-> doc_db[db_name].collections]
           custom == Truthy(doc_h.event.RequestType)
       IN doc_h' =
            IF outcome = "reopened"
            THEN [doc_h EXCEPT
                    !.client = "open",
                    !.commands_after_close = @ + 1,
                    !.response =
                        Some([statusCode |-> Some(200), body |-> Some(body),
                              PhysicalResourceId |->
                                  IF custom
                                  THEN Some(DocSuccessPhysicalResourceId(
                                                Get(doc_h.db_host, ""), db_name))
                                  ELSE None,
                              Data |-> IF custom
                                       THEN Some(<<"DocumentDB initialized successfully">>)
                                       ELSE None]),
                    !.pc = "returned"]
            ELSE [DocHandlerRaise(IF outcome = "invalid" THEN "InvalidOperation"
                                  ELSE "PyMongoError",
                                  "list_collection_names")
                     EXCEPT !.commands_after_close = @ + 1]
    /\ UNCHANGED <<doc_wait, doc_db, doc_init>>
    /\ UNCHANGED docHandlerFrame

\* lines 379-413: log, close the client if the name is bound, build the
\* failure response, re-raise.  request_type is never 'Delete' here.
DocHandlerExcept ==
    /\ doc_h.pc = "except"
    /\ LET custom == Truthy(doc_h.event.RequestType)
           failure == [statusCode |-> Some(500), body |-> doc_h.error,
                       PhysicalResourceId |->
                           IF custom THEN doc_h.physical_resource_id ELSE None,
                       Reason |-> IF custom THEN doc_h.error ELSE None]
           cleaned == IF doc_h.client # "unbound"
                      THEN [doc_h EXCEPT !.client = "closed", !.closes = @ + 1]
                      ELSE doc_h
       IN doc_h' =
            IF doc_h.request_type = Some("Delete")
            THEN [cleaned EXCEPT
                    !.response =
                        Some([PhysicalResourceId |-> doc_h.physical_resource_id,
                              Data |-> Some(<<"Delete completed (with warnings)">>),
                              statusCode |-> None, body |-> None]),
                    !.pc = "returned"]
            ELSE [cleaned EXCEPT !.failure_response = Some(failure),
                                 !.pc = "raised"]
    /\ UNCHANGED <<doc_wait, doc_db, doc_init>>
    /\ UNCHANGED docHandlerFrame

\* What the caller of the handler gets: the value of a `return`, or the
\* exception of the bare `raise` at line 413.  The dict built at lines
\* 402-411 is a local that nothing returns or sends.
DocHandlerObserved ==
    CASE doc_h.pc = "returned" -> Get(doc_h.response, [statusCode |-> None])
      [] doc_h.pc = "raised" ->
            [errorType |-> Get(doc_h.error, [kind |-> "", from |-> ""]).kind,
             errorMessage |-> Get(doc_h.error, [kind |-> "", from |-> ""]).from]
      [] OTHER -> [pending |-> TRUE]

DocHandlerNext ==
    \/ DocHandlerEntry
    \/ DocHandlerResolve
    \/ \E outcome \in SecretOutcomes : DocHandlerCredentials(outcome)
    \/ \E outcome \in DocDnsOutcomes : DocValidateDns(outcome)
    \/ \E outcome \in DocTcpOutcomes : DocValidateTcp(outcome)
    \/ \E outcome \in DocSecretTestOutcomes : DocValidateSecret(outcome)
    \/ DocValidateSummary
    \/ DocHandlerWait
    \/ DocHandlerAfterWait
    \/ \E ok \in BOOLEAN : DocHandlerConnect(ok)
    \/ DocHandlerInitCollections
    \/ DocHandlerAfterInit
    \/ DocHandlerClose
    \/ \E outcome \in DocListAfterCloseOutcomes : DocHandlerRespond(outcome)
    \/ DocHandlerExcept

-----------------------------------------------------------------------------
(* Specifications *)

\* nothing of the document-store schema initialisation is in use
DocIdle ==
    /\ doc_db = DocNoCatalogs
    /\ doc_init = [p \in Procs |-> DocInitIdle]
    /\ doc_h = DocHandlerIdle

\* nothing of the relational schema initialisation is in use
PgIdle ==
    /\ pg_db = [databases |-> {}, catalog |-> PgNoCatalog]
    /\ pg_conns = <<>>
    /\ pg_init = PgInitIdle
    /\ pg_h = PgHandlerIdle

\* init_docdb.wait_for_db called with explicit or defaulted parameters
DocWaitInit ==
    /\ doc_env \in RetryEnvs
    /\ \E max_retries \in {None} \cup {Some(n) : n \in 0..MaxRetries},
          retry_delay \in {None} \cup {Some(d) : d \in RetryDelays} :
          doc_wait = DocWaitCall(max_retries, retry_delay)
    /\ pg_env = NoEnv
    /\ pg_wait = PgWaitIdle
    /\ DocIdle
    /\ PgIdle

SpecDocWait ==
    DocWaitInit /\ [][DocWaitNext]_vars

\* init_postgres.wait_for_db called with explicit or defaulted parameters
PgWaitInit ==
    /\ pg_env \in RetryEnvs
    /\ \E max_retries \in {None} \cup {Some(n) : n \in 0..MaxRetries},
          retry_delay \in {None} \cup {Some(d) : d \in RetryDelays} :
          pg_wait = PgWaitCall(max_retries, retry_delay)
    /\ doc_env = NoEnv
    /\ doc_wait = DocWaitIdle
    /\ DocIdle
    /\ PgIdle

SpecPgWait ==
    PgWaitInit /\ [][PgWaitNext]_vars

\* the caller runs init_pgvector again, on a new connection to the same database
PgInitRerun ==
    /\ pg_init.pc \in {"returned", "raised"}
    /\ pg_init.runs < MaxRuns
    /\ pg_conns' = Append(pg_conns, PgNewConnection(PgInitDatabase))
    /\ pg_init' = PgInitCall(pg_init, Len(pg_conns) + 1)
    /\ UNCHANGED <<doc_env, doc_wait, doc_db, doc_init, pg_env, pg_wait, pg_db,
                   doc_h, pg_h>>

\* init_pgvector called, as the handler calls it, on a fresh connection to an
\* existing database holding any catalog
PgInitInit ==
    /\ doc_env = NoEnv
    /\ doc_wait = DocWaitIdle
    /\ DocIdle
    /\ pg_env = NoEnv
    /\ pg_wait = PgWaitIdle
    /\ \E database \in DbNames, c \in PgCatalogs :
          /\ pg_db = [databases |-> {database},
                      catalog |-> [PgNoCatalog EXCEPT ![database] = c]]
          /\ pg_conns = <<PgNewConnection(database)>>
    /\ pg_init = PgInitCall(PgInitIdle, 1)
    /\ pg_h = PgHandlerIdle

SpecPgInit ==
    PgInitInit /\ [][PgInitNext \/ PgInitRerun]_vars

\* the most collections, and the most indexes, already present at the start
MaxPreCollections ==
    2

MaxPreIndexes ==
    2

\* The catalogs drawn for the start: up to MaxPreCollections of the eight
\* collections, holding up to MaxPreIndexes of their indexes, all of them
\* either as init_collections declares them or with other options.
DocStartCatalogs ==
    UNION {{[collections |-> cs,
             indexes |-> {[collection |-> j.collection, key |-> j.key,
                           options |-> IF declared THEN j.options ELSE "other"] :
                              j \in js}] :
               js \in SubsetsUpTo({j \in DocAllIndexes : j.collection \in cs},
                                  MaxPreIndexes),
               declared \in BOOLEAN} :
           cs \in SubsetsUpTo(DocCollectionNames, MaxPreCollections)}

\* the caller runs init_collections again on the database it initialised
DocInitRerun(p) ==
    /\ doc_init[p].pc = "returned"
    /\ doc_init[p].runs < MaxRuns
    /\ doc_init' = [doc_init EXCEPT ![p] = DocInitCall(doc_init[p], doc_init[p].db)]
    /\ UNCHANGED doc_db
    /\ UNCHANGED docInitFrame

\* init_collections called by one invocation on a database holding any of
\* the start catalogs
DocInitInit ==
    /\ doc_env = NoEnv
    /\ doc_wait = DocWaitIdle
    /\ pg_env = NoEnv
    /\ pg_wait = PgWaitIdle
    /\ PgIdle
    /\ doc_h = DocHandlerIdle
    /\ \E db \in {"librechat"}, catalog \in DocStartCatalogs :
          /\ doc_db = [DocNoCatalogs EXCEPT ![db] = catalog]
          /\ doc_init = [p \in Procs |->
                            IF p = 1 THEN DocInitCall(DocInitIdle, db)
                            ELSE DocInitIdle]

SpecDocInit ==
    DocInitInit /\ [][DocInitNext \/ \E p \in Procs : DocInitRerun(p)]_vars

\* init_collections called by two invocations at once on the same empty
\* database
DocRaceInit ==
    /\ doc_env = NoEnv
    /\ doc_wait = DocWaitIdle
    /\ pg_env = NoEnv
    /\ pg_wait = PgWaitIdle
    /\ PgIdle
    /\ doc_h = DocHandlerIdle
    /\ doc_db = DocNoCatalogs
    /\ doc_init = [p \in Procs |-> DocInitCall(DocInitIdle, "librechat")]

SpecDocRace ==
    DocRaceInit /\ [][DocInitNext]_vars

\* either of the two wait_for_db functions
SpecWait ==
    (DocWaitInit \/ PgWaitInit) /\ [][DocWaitNext \/ PgWaitNext]_vars

\* Either wait_for_db, running to its end: every connection attempt ends
\* (the probes carry timeouts of 5 s / 10 s, lines 160-162 and 53) and every
\* time.sleep returns, so a call that can take a step takes one.
\* The retry budget is passed as the argument max_retries (0 included), the
\* delay is passed or left to the default.
WaitFairInit ==
    /\ doc_env = NoEnv
    /\ pg_env = NoEnv
    /\ DocIdle
    /\ PgIdle
    /\ \E max_retries \in {Some(n) : n \in 0..MaxRetries},
          retry_delay \in {None} \cup {Some(d) : d \in RetryDelays} :
          \/ /\ doc_wait = DocWaitCall(max_retries, retry_delay)
             /\ pg_wait = PgWaitIdle
          \/ /\ doc_wait = DocWaitIdle
             /\ pg_wait = PgWaitCall(max_retries, retry_delay)

SpecWaitFair ==
    /\ WaitFairInit
    /\ [][DocWaitNext \/ PgWaitNext]_vars
    /\ WF_vars(DocWaitNext \/ PgWaitNext)

\* the servers drawn for an invocation of the relational handler: no
\* database yet, or both with or without the schema
PgStartServers ==
    {[databases |-> {}, catalog |-> PgNoCatalog]}
    \cup {[databases |-> DbNames, catalog |-> [d \in DbNames |-> c]] :
            c \in {{}, PgObjects}}

\* the relational handler invoked once
PgHandlerInit ==
    /\ doc_env = NoEnv
    /\ doc_wait = DocWaitIdle
    /\ DocIdle
    /\ pg_env \in HandlerEnvs
    /\ pg_wait = PgWaitIdle
    /\ pg_db \in PgStartServers
    /\ pg_conns = <<>>
    /\ pg_init = PgInitIdle
    /\ \E event \in HandlerEvents : pg_h = PgHandlerCall(event, pg_db)

PgInvocationNext ==
    PgHandlerNext \/ PgWaitNext \/ PgInitNext

SpecPgHandler ==
    PgHandlerInit /\ [][PgInvocationNext]_vars

\* Another client of the server creates the database this invocation is
\* about to look for or create.
PgExternalCreateDatabase ==
    /\ pg_h.pc \in {"connect", "admin_connect", "check_db", "create_db"}
    /\ Get(pg_h.db_name, "") \notin pg_db.databases
    /\ pg_db' = [pg_db EXCEPT !.databases = @ \cup {Get(pg_h.db_name, "")}]
    /\ UNCHANGED <<pg_wait, pg_conns, pg_init, pg_h>>
    /\ UNCHANGED pgHandlerFrame

\* the relational handler invoked once while another client may create its
\* database
SpecPgRace ==
    PgHandlerInit /\ [][PgInvocationNext \/ PgExternalCreateDatabase]_vars

\* the clusters drawn for an invocation of the document-store handler: no
\* collection yet, or both databases fully initialised
DocStartClusters ==
    {DocNoCatalogs,
     [d \in DbNames |-> [collections |-> DocCollectionNames,
                         indexes |-> DocAllIndexes]]}

\* the document-store handler invoked once
DocHandlerInit ==
    /\ doc_env \in HandlerEnvs
    /\ doc_wait = DocWaitIdle
    /\ doc_db \in DocStartClusters
    /\ doc_init = [p \in Procs |-> DocInitIdle]
    /\ \E event \in HandlerEvents : doc_h = DocHandlerCall(event, doc_db)
    /\ pg_env = NoEnv
    /\ pg_wait = PgWaitIdle
    /\ PgIdle

DocInvocationNext ==
    DocHandlerNext \/ DocWaitNext \/ DocInitNext

SpecDocHandler ==
    DocHandlerInit /\ [][DocInvocationNext]_vars

\* either handler invoked once
SpecHandlers ==
    (DocHandlerInit \/ PgHandlerInit)
        /\ [][DocInvocationNext \/ PgInvocationNext]_vars

\* The inputs drawn for the configuration lookups: an event and an
\* environment.  Every source of a key holds a value of its own.
\* First family: each of host, port, database name and secret id is present
\* or absent in ResourceProperties, in the event and in the environment; the
\* host of ResourceProperties may also be the empty string.
ParameterInputs ==
    {[event |->
        [NoEvent EXCEPT
            !.RequestType = Some("Create"),
            !.ResourceProperties =
                Some([NoResourceProperties EXCEPT
                        !.DBHost = rp[1], !.DBPort = rp[2],
                        !.DBName = rp[3], !.SecretId = rp[4]]),
            !.DBHost = ev[1], !.DBPort = ev[2], !.DBName = ev[3],
            !.SecretId = ev[4]],
      env |->
        [NoEnv EXCEPT !.DB_HOST = en[1], !.DB_PORT = en[2], !.DB_NAME = en[3],
                      !.DB_SECRET_ID = en[4]]] :
        rp \in {None, Some(""), Some("rp-host")} \X {None, Some("1111")}
               \X {None, Some("rp-db")} \X {None, Some("rp-secret")},
        ev \in {None, Some("event-host")} \X {None, Some("2222")}
               \X {None, Some("event-db")} \X {None, Some("event-secret")},
        en \in {None, Some("env-host")} \X {None, Some("3333")}
               \X {None, Some("env-db")} \X {None, Some("env-secret")}}

\* Second family: the host is given, a secret id is given or not, and each
\* of user and password is present or absent in the three sources.
CredentialInputs ==
    {[event |->
        [NoEvent EXCEPT
            !.RequestType = request_type,
            !.ResourceProperties =
                Some([NoResourceProperties EXCEPT
                        !.DBHost = Some("rp-host"), !.SecretId = secret_id,
                        !.DBUser = rp[1], !.DBPassword = rp[2]]),
            !.DBUser = ev[1], !.DBPassword = ev[2]],
      env |-> [NoEnv EXCEPT !.DB_USER = en[1], !.DB_PASSWORD = en[2]]] :
        request_type \in {None, Some("Create")},
        secret_id \in {None, Some("rp-secret")},
        rp \in {None, Some("rp-user")} \X {None, Some("rp-password")},
        ev \in {None, Some("event-user")} \X {None, Some("event-password")},
        en \in {None, Some("env-user")} \X {None, Some("env-password")}}

\* either handler invoked on one of those inputs
ResolveInit ==
    /\ doc_wait = DocWaitIdle
    /\ doc_db = DocNoCatalogs
    /\ doc_init = [p \in Procs |-> DocInitIdle]
    /\ pg_wait = PgWaitIdle
    /\ pg_db = [databases |-> {}, catalog |-> PgNoCatalog]
    /\ pg_conns = <<>>
    /\ pg_init = PgInitIdle
    /\ \E input \in ParameterInputs \cup CredentialInputs :
          \/ /\ doc_env = input.env
             /\ doc_h = DocHandlerCall(input.event, doc_db)
             /\ pg_env = NoEnv
             /\ pg_h = PgHandlerIdle
          \/ /\ pg_env = input.env
             /\ pg_h = PgHandlerCall(input.event, pg_db)
             /\ doc_env = NoEnv
             /\ doc_h = DocHandlerIdle

\* the handlers up to the end of their credentials step, and their except
\* blocks
ResolveNext ==
    \/ DocHandlerEntry
    \/ DocHandlerResolve
    \/ \E outcome \in SecretOutcomes : DocHandlerCredentials(outcome)
    \/ DocHandlerExcept
    \/ PgHandlerEntry
    \/ PgHandlerResolve
    \/ \E outcome \in SecretOutcomes : PgHandlerCredentials(outcome)
    \/ PgHandlerExcept

SpecResolve ==
    ResolveInit /\ [][ResolveNext]_vars

-----------------------------------------------------------------------------
(* Claims *)

\* ---- C3 ----
\* C3: init_collections is idempotent.  Started on a catalog holding any of
\* the eight collections and any of their indexes as declared, and with the
\* server failing no call for reasons of its own, it never raises; it calls
\* create_collection only for collections that were absent; when it returns
\* the catalog holds exactly the eight collections and the declared and
\* system indexes; and a second run returns too, creates nothing and leaves
\* the catalog as the first run left it.
C3_DocInitIdempotent ==
    \A p \in Procs :
        LET st == doc_init[p]
            catalog == doc_db[st.db]
        IN (/\ st.pc \notin {"idle", "call"}
            /\ st.before.indexes \subseteq DocAllIndexes
            /\ ~st.injected) =>
               /\ st.pc \notin {"except", "raised"}
               /\ st.created \cap st.before.collections = {}
               /\ st.pc = "returned" =>
                      /\ catalog.collections = DocCollectionNames
                      /\ catalog.indexes = DocAllIndexes
               /\ st.runs >= 2 =>
                      /\ st.created = {}
                      /\ catalog = st.before

\* C3 witness: the second run has returned on a database that held one
\* collection and one of its indexes before the first run.
C3_Witness ==
    /\ doc_init[1].pc = "returned"
    /\ doc_init[1].runs = 2
    /\ doc_init[1].previous[1].before.collections = {"users"}
    /\ Cardinality(doc_init[1].previous[1].before.indexes) = 1
    /\ doc_init[1].previous[1].before.indexes \subseteq DocAllIndexes
    /\ doc_db[doc_init[1].db] = doc_init[1].before

\* ---- C2 ----
\* C2 as claimed: a run of init_pgvector that follows a run which committed
\* on the same database raises no error (the server failing a statement for
\* reasons of its own aside), commits, and leaves the catalog as it found it.
C2_SecondRunSucceeds ==
    (/\ pg_init.previous # <<>>
     /\ pg_init.previous[Len(pg_init.previous)] = "committed"
     /\ ~pg_init.injected) =>
        /\ pg_init.pc \notin {"except", "raised"}
        /\ pg_init.pc = "returned" =>
               /\ pg_init.commits = 1
               /\ pg_db.catalog[PgInitDatabase] = pg_init.before

\* ---- C10 ----
\* C10: init_pgvector is atomic.  While it runs, nothing it created is in the
\* committed catalog; when it has raised, because any one statement failed,
\* it called rollback once and commit never, the error names that statement
\* and the catalog is the catalog before the call; when it has returned it
\* ran all six statements, then called commit once and rollback never, and
\* the catalog is the old one plus the six objects.
C10_InitPgvectorAtomic ==
    LET catalog == pg_db.catalog[pg_conns[pg_init.connection].database]
    IN /\ pg_init.pc \in {"execute", "commit", "except"} =>
              /\ catalog = pg_init.before
              /\ pg_init.commits = 0
              /\ pg_init.rollbacks = 0
       /\ pg_init.pc = "raised" =>
              /\ catalog = pg_init.before
              /\ pg_init.commits = 0
              /\ pg_init.rollbacks = 1
              /\ \E e \in pg_init.error : e.statement = pg_init.k
       /\ pg_init.pc = "returned" =>
              /\ catalog = pg_init.before \cup PgObjects
              /\ pg_init.k = Len(PgStatements) + 1
              /\ pg_init.commits = 1
              /\ pg_init.rollbacks = 0
              /\ pg_init.error = None

\* C10 witness: on an empty database the fourth statement fails after three
\* objects were created in the transaction, and the call has raised.
C10_Witness ==
    /\ pg_init.pc = "raised"
    /\ pg_init.before = {}
    /\ pg_init.injected
    /\ \E e \in pg_init.error : e.statement = 4

\* ---- C4 ----
\* C4 as claimed: in init_docdb.wait_for_db an attempt that fails on
\* authentication ends the loop at once: the loop never sleeps after it and
\* never makes another attempt, so an authentication failure is always the
\* latest attempt and is never followed by a sleep.
C4_AuthFailureEndsDocLoop ==
    doc_wait.auth =>
        /\ doc_wait.last = "auth"
        /\ doc_wait.pc # "sleeping"

\* ---- C6 ----
\* The delays the claim names: the first is retry_delay, each next one is
\* min(2 * previous, 60).
RECURSIVE C6_Delays(_, _)
C6_Delays(first, n) ==
    IF n = 0 THEN <<>>
    ELSE <<first>> \o C6_Delays(IF 2 * first < 60 THEN 2 * first ELSE 60, n - 1)

\* C6: when init_docdb.wait_for_db returns after k attempts of which the
\* first k-1 failed transiently, 1 <= k <= max_retries, it has slept exactly
\* k-1 times, for retry_delay and then min(2 * previous, 60) each, the total
\* slept is the sum of those delays, every successful probe was closed, and
\* nothing more can happen in the function.
C6_DocReturnsAfterKAttempts ==
    (doc_wait.pc = "returned" /\ ~doc_wait.auth) =>
        LET k == doc_wait.attempts
        IN /\ 1 <= k /\ k <= doc_wait.max_retries
           /\ doc_wait.last = "ok"
           /\ Len(doc_wait.sleeps) = k - 1
           /\ doc_wait.sleeps = C6_Delays(doc_wait.retry_delay, k - 1)
           /\ SumSeq(doc_wait.sleeps)
                  = SumSeq(C6_Delays(doc_wait.retry_delay, k - 1))
           /\ ~ENABLED DocWaitNext

\* C6 witness: success on the third attempt after two transient failures,
\* with the second delay cut by the 60 second cap.
C6_Witness ==
    /\ doc_wait.pc = "returned"
    /\ ~doc_wait.auth
    /\ doc_wait.attempts = 3
    /\ doc_wait.sleeps = <<40, 60>>

\* ---- C7 ----
\* C7 as claimed: the error init_docdb.wait_for_db raises on exhaustion
\* states max_retries attempts and a total wait equal to the seconds the
\* loop slept, for max_retries >= 1 and retry_delay >= 1.
C7_ExhaustedErrorStatesTimeSlept ==
    (/\ doc_wait.pc = "raised"
     /\ doc_wait.max_retries >= 1
     /\ doc_wait.retry_delay >= 1) =>
        \A e \in doc_wait.error :
            /\ e.attempts = doc_wait.max_retries
            /\ e.total_wait_time = SumSeq(doc_wait.sleeps)

\* ---- C5 ----
\* C5: in init_postgres.wait_for_db, once the latest attempt failed with an
\* OperationalError whose message the loop classifies as 'password
\* authentication failed' (it holds that text and not 'could not connect to
\* server', which the loop tests first), the function is handling that error
\* or has re-raised it: it is never asleep, it never returns to the loop
\* head, the number of sleeps is the number of earlier attempts, and the
\* error raised is that very error.
C5_AuthFailureEndsPgLoop ==
    (/\ pg_wait.last.type = "OperationalError"
     /\ PgAuthFailed \in pg_wait.last.msg
     /\ PgCouldNotConnect \notin pg_wait.last.msg) =>
        /\ pg_wait.pc \in {"except_operational", "raised"}
        /\ pg_wait.nsleeps = pg_wait.attempts - 1
        /\ pg_wait.attempts = pg_wait.i + 1
        /\ pg_wait.pc = "raised" =>
               /\ pg_wait.error = Some([kind |-> "reraised", exc |-> pg_wait.last])
               /\ ~ENABLED PgWaitNext

\* C5 witness: the authentication failure is re-raised on the third attempt,
\* after two transient failures and two sleeps.
C5_Witness ==
    /\ pg_wait.pc = "raised"
    /\ pg_wait.last.msg = {PgAuthFailed}
    /\ pg_wait.attempts = 3
    /\ pg_wait.nsleeps = 2
    /\ pg_wait.max_retries > 3

\* ---- C8 ----
\* C8 as claimed: in both wait_for_db functions, whenever the loop sleeps
\* and whenever the function has returned or raised, every probe client or
\* connection it opened has been closed.
C8_NoProbeLeak ==
    /\ doc_wait.pc \in {"sleeping", "returned", "raised"} =>
           doc_wait.opened = doc_wait.closed
    /\ pg_wait.pc \in {"sleeping", "returned", "raised"} =>
           pg_wait.opened = pg_wait.closed

\* ---- C1 ----
\* C1: in both handlers an invocation whose RequestType is 'Delete' or
\* 'Update' is either about to take the early branch or has returned; it is
\* never in the try block or the except block and never raises.  It has
\* fetched no secret, made no network check, opened no connection or probe,
\* slept never and called neither schema initialisation, and the catalog is
\* the catalog at invocation.  What it returns is a success envelope (no
\* status code, no error) whose PhysicalResourceId is the event's, or
\* 'docdb-init' / 'postgres-init' when the event has none, and whose message
\* names the request type.
C1_LifecycleNoOp ==
    /\ (doc_h.pc # "idle"
            /\ doc_h.event.RequestType \in {Some("Delete"), Some("Update")}) =>
          /\ doc_h.pc \in {"entry", "returned"}
          /\ doc_h.pc = "entry" => ENABLED DocHandlerEntry
          /\ doc_h.secret_fetches = 0
          /\ doc_h.checks = <<>>
          /\ doc_h.client = "unbound"
          /\ doc_wait = DocWaitIdle
          /\ doc_init = [p \in Procs |-> DocInitIdle]
          /\ doc_db = doc_h.before
          /\ doc_h.error = None
          /\ doc_h.pc = "returned" =>
                \E r \in doc_h.response :
                    /\ r.PhysicalResourceId =
                          (IF doc_h.event.PhysicalResourceId = None
                           THEN Some(<<"docdb-init">>)
                           ELSE doc_h.event.PhysicalResourceId)
                    /\ r.statusCode = None
                    /\ \E m \in r.Data :
                          m = <<Get(doc_h.event.RequestType, ""),
                                "completed successfully">>
    /\ (pg_h.pc # "idle"
            /\ pg_h.event.RequestType \in {Some("Delete"), Some("Update")}) =>
          /\ pg_h.pc \in {"entry", "returned"}
          /\ pg_h.pc = "entry" => ENABLED PgHandlerEntry
          /\ pg_h.secret_fetches = 0
          /\ pg_h.connection = 0
          /\ pg_conns = <<>>
          /\ pg_wait = PgWaitIdle
          /\ pg_init = PgInitIdle
          /\ pg_db = pg_h.before
          /\ pg_h.error = None
          /\ pg_h.pc = "returned" =>
                \E r \in pg_h.response :
                    /\ r.PhysicalResourceId =
                          (IF pg_h.event.PhysicalResourceId = None
                           THEN Some(<<"postgres-init">>)
                           ELSE pg_h.event.PhysicalResourceId)
                    /\ r.statusCode = None
                    /\ \E m \in r.Data :
                          m = <<Get(pg_h.event.RequestType, ""),
                                "completed successfully">>

\* C1 witness: the document-store handler has returned from an 'Update'
\* event that carries no PhysicalResourceId but a host and a secret, invoked
\* on an initialised cluster.
C1_Witness ==
    /\ doc_h.pc = "returned"
    /\ doc_h.event.RequestType = Some("Update")
    /\ doc_h.event.PhysicalResourceId = None
    /\ \E rp \in doc_h.event.ResourceProperties :
          rp.DBHost # None /\ rp.SecretId # None
    /\ doc_db["librechat"].collections = DocCollectionNames

\* ---- C9 ----
\* C9 as claimed: when the relational handler has returned or raised, every
\* connection it opened is closed.
C9_HandlerConnectionsClosed ==
    pg_h.pc \in {"returned", "raised"} =>
        \A n \in DOMAIN pg_conns : pg_conns[n].closed

\* ---- C11 ----
\* C11 as claimed: whenever another client creates the target database
\* before this handler's CREATE DATABASE executes, the handler does not fail
\* on database creation: its CREATE DATABASE never fails on a database that
\* exists, and it goes on to reconnect.
C11_RaceGuard ==
    pg_h.error # Some([kind |-> "DuplicateDatabase", from |-> "create database"])

\* ---- C12 ----
\* C12 as claimed: when two invocations run init_collections at once on the
\* same empty database, then under every interleaving, and with the server
\* failing no call for reasons of its own, neither invocation raises, and
\* once both have returned the catalog holds exactly the eight collections
\* and the declared and system indexes.
C12_ConcurrentInitSafe ==
    /\ \A p \in Procs :
          ~doc_init[p].injected => doc_init[p].pc \notin {"except", "raised"}
    /\ (\A p \in Procs : doc_init[p].pc = "returned") =>
          /\ doc_db["librechat"].collections = DocCollectionNames
          /\ doc_db["librechat"].indexes = DocAllIndexes

\* ---- C13 ----
\* C13: in one invocation of the relational handler with no other client
\* creating databases.  CREATE DATABASE is issued at most once, and only
\* right after the recheck of pg_database found the target absent.  When the
\* first connect failed because the target does not exist: past the create
\* step the database exists and one CREATE DATABASE succeeded; init_pgvector
\* is called only after that, on the newest connection, which is a
\* non-autocommit session on the target and not the 'postgres' session; and
\* an invocation that returned issued CREATE DATABASE exactly once.  A
\* response is built only after init_pgvector returned having committed
\* once.  When the first connect fails for any other reason nothing else is
\* asked of the server, no database is created and the handler is raising
\* that error.
C13_CreateDatabasePath ==
    LET log == pg_h.log
        creates == {i \in DOMAIN log : log[i].op = "create database"}
        missing == log # <<>> /\ log[1] = [op |-> "connect",
                                           result |-> "does not exist"]
        created == \E i \in creates : log[i].result = "ok"
        target == Get(pg_h.db_name, "")
    IN /\ Cardinality(creates) <= 1
       /\ \A i \in creates :
             i > 1 /\ log[i - 1] = [op |-> "recheck", result |-> "absent"]
       /\ creates # {} => missing
       /\ (missing /\ pg_h.pc \in {"admin_close", "reconnect", "init", "in_init",
                                   "close", "respond", "returned"}) =>
             created /\ target \in pg_db.databases
       /\ (missing /\ pg_init.pc # "idle") =>
             /\ created
             /\ log[Len(log)] = [op |-> "reconnect", result |-> "ok"]
             /\ pg_init.connection = Len(pg_conns)
             /\ pg_conns[pg_init.connection].database = target
             /\ pg_conns[pg_init.connection].database # "postgres"
             /\ ~pg_conns[pg_init.connection].autocommit
       /\ (missing /\ pg_h.pc = "returned") => Cardinality(creates) = 1
       /\ (pg_h.pc \in {"respond", "returned"}
               /\ ~PgIsLifecycleNoOp(pg_h.event.RequestType)) =>
             /\ pg_init.pc = "returned"
             /\ pg_init.commits = 1
             /\ PgObjects \subseteq pg_db.catalog[target]
       /\ (log # <<>> /\ log[1].op = "connect"
               /\ log[1].result \in {"operational", "other"}) =>
             /\ Len(log) = 1
             /\ pg_db = pg_h.before
             /\ pg_h.pc \in {"except", "raised"}
             /\ \E e \in pg_h.error :
                   /\ e.from = "connect"
                   /\ e.kind = (IF log[1].result = "operational"
                                THEN "OperationalError" ELSE "Exception")

\* C13 witness: the handler has returned after its first connect failed on
\* a missing database and it created the database itself.
C13_Witness ==
    /\ pg_h.pc = "returned"
    /\ pg_h.before.databases = {}
    /\ Len(pg_h.log) = 5
    /\ pg_h.log[4] = [op |-> "create database", result |-> "ok"]
    /\ Get(pg_h.db_name, "") \in pg_db.databases
    /\ Len(pg_conns) = 2

\* ---- C14 ----
\* C14: in both handlers, take an invocation that is not a Delete or Update,
\* whose host resolved, and that is past the credentials step with no
\* password available: with a secret id, the secret was fetched and holds no
\* password or an empty one; without one, neither the event nor the
\* environment supplies a non-empty password.  That invocation is in the
\* except block or has raised, its error is the ValueError 'Database
\* password not provided', and it has made no network test, no probe or
\* connection, no sleep and no call of a schema initialisation.
C14_PasswordMissingFailsFast ==
    LET missing(h, env) ==
            /\ h.pc \notin {"idle", "entry", "resolve", "credentials"}
            /\ h.event.RequestType \notin {Some("Delete"), Some("Update")}
            /\ h.db_host \notin {None, Some("")}
            /\ IF h.secret_id \notin {None, Some("")}
               THEN \E secret \in h.credentials :
                        secret.password \in {None, Some("")}
               ELSE /\ h.event.DBPassword \in {None, Some("")}
                    /\ h.event.DBPassword = None =>
                           env.DB_PASSWORD \in {None, Some("")}
        error == Some([kind |-> "ValueError",
                       from |-> "Database password not provided"])
    IN /\ missing(doc_h, doc_env) =>
             /\ doc_h.pc \in {"except", "raised"}
             /\ doc_h.error = error
             /\ doc_h.checks = <<>>
             /\ doc_h.client = "unbound"
             /\ doc_wait = DocWaitIdle
             /\ doc_init = [p \in Procs |-> DocInitIdle]
       /\ missing(pg_h, pg_env) =>
             /\ pg_h.pc \in {"except", "raised"}
             /\ pg_h.error = error
             /\ pg_h.connection = 0
             /\ pg_conns = <<>>
             /\ pg_wait = PgWaitIdle
             /\ pg_init = PgInitIdle

\* C14 witness: the document-store handler has raised after it fetched a
\* secret whose password is the empty string.
C14_Witness ==
    /\ doc_h.pc = "raised"
    /\ doc_h.secret_id # None
    /\ \E secret \in doc_h.credentials : secret.password = Some("")
    /\ doc_h.secret_fetches = 1
    /\ doc_h.event.RequestType = Some("Create")

\* ---- C15 ----
\* The value the claim names: that of the first source holding the key, in
\* the order ResourceProperties, event, environment, default.
C15_Expected(resource_props, event, environ, default) ==
    IF resource_props # {} THEN resource_props
    ELSE IF event # {} THEN event
    ELSE IF environ # {} THEN environ
    ELSE default

\* C15: in both handlers, once the lookups have run, host, port, database
\* name and secret id each hold the value of the first source that supplies
\* the key (ResourceProperties, then the event, then the environment), else
\* the default: port '27017' / '5432', name 'librechat', none for host and
\* secret id.  The invocation goes on to the credentials exactly when the
\* host so resolved is a non-empty string; otherwise it fails with the
\* ValueError 'Database host not provided' and fetches no secret.
C15_ResolutionPrecedence ==
    LET holds(h, env, port) ==
            h.pc \notin {"idle", "entry", "resolve"} =>
                LET rp == Get(h.event.ResourceProperties, NoResourceProperties)
                    host == C15_Expected(rp.DBHost, h.event.DBHost, env.DB_HOST, {})
                    unresolved == host = {} \/ host = {""}
                    error == {[kind |-> "ValueError",
                               from |-> "Database host not provided"]}
                IN /\ h.db_host = host
                   /\ h.db_port = C15_Expected(rp.DBPort, h.event.DBPort,
                                               env.DB_PORT, {port})
                   /\ h.db_name = C15_Expected(rp.DBName, h.event.DBName,
                                               env.DB_NAME, {"librechat"})
                   /\ h.secret_id = C15_Expected(rp.SecretId, h.event.SecretId,
                                                 env.DB_SECRET_ID, {})
                   /\ unresolved =>
                         /\ h.pc \in {"except", "raised"}
                         /\ h.error = error
                         /\ h.secret_fetches = 0
                   /\ ~unresolved => h.error # error
    IN /\ holds(doc_h, doc_env, "27017")
       /\ holds(pg_h, pg_env, "5432")

\* C15 witness: the relational handler is at its credentials step with the
\* host taken from the event, the port from the environment, the default
\* database name and the secret id of ResourceProperties.
C15_Witness ==
    /\ pg_h.pc = "credentials"
    /\ pg_h.db_host = Some("event-host")
    /\ pg_h.db_port = Some("3333")
    /\ pg_h.db_name = Some("librechat")
    /\ pg_h.secret_id = Some("rp-secret")
    /\ pg_env.DB_HOST = Some("env-host")
    /\ pg_h.event.SecretId = Some("event-secret")

\* ---- C16 ----
\* C16 as claimed: in both handlers, with no secret id resolved, once the
\* credentials step has run, a DBUser supplied in ResourceProperties is the
\* user and a DBPassword supplied in ResourceProperties is the password.
C16_ResourcePropertiesCredentials ==
    LET holds(h) ==
            (/\ h.pc \notin {"idle", "entry", "resolve", "credentials"}
             /\ h.db_host # {}
             /\ h.secret_id = {}) =>
                LET rp == Get(h.event.ResourceProperties, NoResourceProperties)
                IN /\ rp.DBUser # {} => h.db_user = rp.DBUser
                   /\ rp.DBPassword # {} => h.db_password = rp.DBPassword
    IN holds(doc_h) /\ holds(pg_h)

\* ---- C17 ----
\* C17 as claimed: in both handlers an invocation that is not a Delete or
\* Update and that fails in any phase raises the error and returns no
\* response, an invocation that returned a response met no failure, and when
\* a handler has raised while its connection name was bound, close was
\* called on that connection.
C17_FailureRaisesAfterCleanup ==
    /\ doc_h.pc = "except" => ENABLED DocHandlerExcept
    /\ doc_h.pc = "raised" =>
          /\ doc_h.response = None
          /\ doc_h.error # None
          /\ doc_h.client # "unbound" => doc_h.closes >= 1
    /\ doc_h.pc = "returned" => doc_h.error = None
    /\ pg_h.pc = "except" => ENABLED PgHandlerExcept
    /\ pg_h.pc = "raised" =>
          /\ pg_h.response = None
          /\ pg_h.error # None
          /\ pg_h.connection # 0 => pg_conns[pg_h.connection].closes >= 1
    /\ pg_h.pc = "returned" => pg_h.error = None

\* ---- C18 ----
\* C18 as claimed: when an invocation with RequestType 'Create' has failed,
\* what the caller gets from the handler carries a Reason and a
\* PhysicalResourceId, the latter being the event's id, or 'docdb-init' /
\* 'postgres-init' when the event has none.
C18_FailureOutcomeCarriesReason ==
    /\ (doc_h.pc = "raised" /\ doc_h.event.RequestType = Some("Create")) =>
          /\ "Reason" \in DOMAIN DocHandlerObserved
          /\ "PhysicalResourceId" \in DOMAIN DocHandlerObserved
          /\ DocHandlerObserved.PhysicalResourceId =
                (IF doc_h.event.PhysicalResourceId = None
                 THEN Some(<<"docdb-init">>)
                 ELSE doc_h.event.PhysicalResourceId)
    /\ (pg_h.pc = "raised" /\ pg_h.event.RequestType = Some("Create")) =>
          /\ "Reason" \in DOMAIN PgHandlerObserved
          /\ "PhysicalResourceId" \in DOMAIN PgHandlerObserved
          /\ PgHandlerObserved.PhysicalResourceId =
                (IF pg_h.event.PhysicalResourceId = None
                 THEN Some(<<"postgres-init">>)
                 ELSE pg_h.event.PhysicalResourceId)

C20_ValidationCollectsAllFailures ==
    LET applicable ==
            IF doc_h.secret_id \in {None, Some("")}
            THEN <<"dns", "tcp">> ELSE <<"dns", "tcp", "secret">>
        tests == [i \in DOMAIN doc_h.checks |-> doc_h.checks[i].test]
        failed == {i \in DOMAIN doc_h.checks : doc_h.checks[i].outcome # "ok"}
        texts(test) ==
            CASE test = "dns" -> {"DNS resolution failed", "DNS test failed"}
              [] test = "tcp" -> {"TCP connection failed with code",
                                  "TCP connectivity test failed"}
              [] OTHER -> {"Access denied to Secrets Manager", "Secret not found",
                           "Secrets Manager error", "Secrets Manager test failed"}
        validation_error == Some([kind |-> "Exception",
                                  from |-> "Network validation failed"])
        running == doc_h.pc \in {"validate", "validate_tcp", "validate_secret",
                                 "validate_summary"}
    IN /\ running =>
            /\ doc_h.error = None
            /\ doc_h.validation_message = None
            /\ Len(tests) <= Len(applicable)
            /\ tests = SubSeq(applicable, 1, Len(tests))
            /\ doc_h.pc = "validate_summary" <=> tests = applicable
       /\ (~running /\ doc_h.checks # <<>>) =>
            /\ tests = applicable
            /\ failed # {} <=> doc_h.error = validation_error
            /\ failed # {} =>
                  /\ doc_h.pc \in {"except", "raised"}
                  /\ doc_wait = DocWaitIdle
                  /\ doc_h.client = "unbound"
                  /\ doc_h.validation_message # None
                  /\ LET message == Get(doc_h.validation_message, <<>>)
                         listed == Tail(message)
                         order == SelectSeq(tests,
                                     LAMBDA t : \E i \in failed : tests[i] = t)
                     IN /\ Head(message) = "Network validation failed"
                        /\ Len(listed) = Cardinality(failed)
                        /\ \A j \in DOMAIN listed : listed[j] \in texts(order[j])
            /\ failed = {} => doc_h.validation_message = None
       /\ doc_h.error = validation_error => doc_h.checks # <<>>

\* C20 witness: with a secret id, the DNS test and the Secrets Manager test
\* failed and the TCP test passed; the exception raised lists both failures.
C20_Witness ==
    /\ doc_h.pc = "raised"
    /\ doc_h.checks = <<[test |-> "dns", outcome |-> "gaierror"],
                        [test |-> "tcp", outcome |-> "ok"],
                        [test |-> "secret", outcome |-> "AccessDeniedException"]>>
    /\ doc_h.validation_message =
           Some(<<"Network validation failed", "DNS resolution failed",
                  "Access denied to Secrets Manager">>)

\* ---- C21 ----
\* C21: in the document-store handler the phases run in the order
\* resolution, network preflight, availability polling, connect, schema
\* initialisation.  The preflight starts only with a host and a password
\* resolved; wait_for_db is called only after every preflight test passed;
\* the client is built only after wait_for_db returned; init_collections is
\* called only with the client built; the catalog changes only through
\* init_collections, hence only after validate_network_connectivity and
\* wait_for_db both succeeded in this invocation.  A phase that failed is
\* followed by no later phase and by no response.
C21_DocPhasesInOrder ==
    LET preflight_started == doc_h.checks # <<>>
        preflight_passed ==
            /\ doc_h.pc \notin {"validate", "validate_tcp", "validate_secret",
                                "validate_summary"}
            /\ Len(doc_h.checks) >= 2
            /\ \A i \in DOMAIN doc_h.checks : doc_h.checks[i].outcome = "ok"
            /\ doc_h.validation_message = None
        polled == doc_wait.pc = "returned"
        connected == doc_h.client # "unbound"
        initialising == doc_init[1].pc # "idle"
        nothing_after_wait ==
            /\ ~connected
            /\ ~initialising
            /\ doc_db = doc_h.before
            /\ doc_h.response = None
    IN /\ preflight_started =>
            /\ doc_h.db_host \notin {None, Some("")}
            /\ doc_h.db_password \notin {None, Some("")}
       /\ doc_wait.pc # "idle" => preflight_passed
       /\ connected => polled
       /\ initialising => connected
       /\ doc_db # doc_h.before =>
            /\ initialising
            /\ preflight_passed
            /\ polled
       /\ doc_h.validation_message # None =>
            /\ doc_wait.pc = "idle"
            /\ nothing_after_wait
       /\ doc_wait.pc = "raised" => nothing_after_wait
       /\ doc_h.error = Some([kind |-> "Exception", from |-> "MongoClient"]) =>
            /\ ~initialising
            /\ doc_db = doc_h.before
            /\ doc_h.response = None
       /\ doc_init[1].pc = "raised" =>
            /\ doc_h.pc \in {"in_init", "except", "raised"}
            /\ doc_h.response = None
            /\ doc_h.closes <= 1

\* C21 witness: a Create has returned with collections created by this
\* invocation, after three preflight tests and a poll that needed a retry.
C21_Witness ==
    /\ doc_h.pc = "returned"
    /\ doc_h.event.RequestType = Some("Create")
    /\ doc_db # doc_h.before
    /\ Len(doc_h.checks) = 3
    /\ doc_wait.attempts >= 2

\* ---- C22 ----
\* C22 as claimed: in init_docdb.wait_for_db, for every retry_delay >= 1,
\* every sleep lasts at most 60 seconds and no sleep is shorter than the one
\* before it.
C22_SleepsCappedAndNonDecreasing ==
    (doc_wait.pc # "idle" /\ doc_wait.retry_delay >= 1) =>
        /\ \A k \in DOMAIN doc_wait.sleeps : doc_wait.sleeps[k] <= 60
        /\ \A k \in DOMAIN doc_wait.sleeps :
              k > 1 => doc_wait.sleeps[k - 1] <= doc_wait.sleeps[k]

\* ---- C23 ----
\* What both loops keep to, given the most sleeps allowed: no more than
\* max_retries attempts, no more sleeps than allowed, no sleep once the last
\* attempt was made, and, unless an attempt ended the loop early (on success,
\* or on an authentication failure in the relational loop), exactly
\* max_retries attempts before the error is raised.
C23_Budget(most_sleeps(_)) ==
    /\ doc_wait.pc \notin {"idle", "call"} =>
          /\ doc_wait.attempts <= doc_wait.max_retries
          /\ Len(doc_wait.sleeps) <= most_sleeps(doc_wait.max_retries)
          /\ doc_wait.pc = "sleeping" => doc_wait.attempts < doc_wait.max_retries
          /\ doc_wait.pc = "raised" => doc_wait.attempts = doc_wait.max_retries
          /\ doc_wait.pc = "returned" => doc_wait.last = "ok"
    /\ pg_wait.pc \notin {"idle", "call"} =>
          /\ pg_wait.attempts <= pg_wait.max_retries
          /\ pg_wait.nsleeps <= most_sleeps(pg_wait.max_retries)
          /\ pg_wait.pc = "sleeping" => pg_wait.attempts < pg_wait.max_retries
          /\ (/\ pg_wait.pc = "raised"
              /\ ~(/\ pg_wait.last.type = "OperationalError"
                   /\ PgAuthFailed \in pg_wait.last.msg
                   /\ PgCouldNotConnect \notin pg_wait.last.msg)) =>
                pg_wait.attempts = pg_wait.max_retries
          /\ pg_wait.pc = "returned" => pg_wait.last.type = "ok"

\* the call that was made has ended, by returning or by raising
C23_Ended ==
    \/ doc_wait.pc \in {"returned", "raised"}
    \/ pg_wait.pc \in {"returned", "raised"}

\* C23: both wait_for_db functions terminate.  For every max_retries >= 0
\* and every sequence of attempt outcomes the function makes at most
\* max_retries attempts and at most max_retries - 1 sleeps (none when
\* max_retries is 0), never sleeps after its final attempt, and ends by
\* returning True or by raising; with every attempt failing transiently it
\* makes exactly max_retries attempts before it raises.
C23_WaitTerminates ==
    /\ [] C23_Budget(LAMBDA n : IF n = 0 THEN 0 ELSE n - 1)
    /\ <> C23_Ended

\* C23 as claimed: at most max_retries - 1 sleeps for every max_retries >= 0.
C23_AtMostMaxRetriesMinusOneSleeps ==
    C23_Budget(LAMBDA n : n - 1)

\* C23 witness: the relational loop has raised after every one of four
\* attempts failed transiently, having slept three times.
C23_Witness ==
    /\ pg_wait.pc = "raised"
    /\ pg_wait.max_retries = 4
    /\ pg_wait.attempts = 4
    /\ pg_wait.nsleeps = 3
    /\ pg_wait.error = Some([kind |-> "exhausted", attempts |-> 4])

\* ---- C24 ----
\* C24 as claimed: in the document-store handler no database command is
\* issued through the client once client.close() was called, and the client
\* is closed at most once in an invocation, exactly once in one that returns
\* after running every phase.
C24_NoCommandAfterClose ==
    /\ doc_h.commands_after_close = 0
    /\ doc_h.closes <= 1
    /\ (doc_h.pc = "returned" /\ doc_h.event.RequestType \notin
                                     {Some("Delete"), Some("Update")}) =>
          doc_h.closes = 1

\* ---- C25 ----
\* C25 as claimed: safe_close_connection called with an open connection
\* returns having called the connection's close exactly once, and leaves it
\* closed.  The handler calls it with the open connection it holds at line
\* 271 (the next step is the reconnection) and at line 284 (the next step is
\* the response).
C25_SafeCloseClosesOnce ==
    pg_h.pc \in {"reconnect", "respond"} =>
        /\ pg_conns[pg_h.connection].closed
        /\ pg_conns[pg_h.connection].closes = 1

\* ---- C26 ----
\* C26: in init_postgres.wait_for_db the error raised when the budget is
\* spent depends on how the last attempt failed.  After an OperationalError
\* that is no authentication failure the function raises its own error,
\* 'did not become available after max_retries attempts'; after any other
\* exception it raises that exception itself.  Either way max_retries
\* attempts were made.  An exception other than OperationalError on an
\* attempt before the last is not raised: the function sleeps exactly
\* retry_delay seconds and tries again.
C26_PgExhaustionError ==
    LET last == pg_wait.last
        final == pg_wait.attempts = pg_wait.max_retries
    IN /\ (/\ pg_wait.pc = "raised"
           /\ last.type = "OperationalError"
           /\ PgAuthFailed \notin last.msg) =>
              /\ final
              /\ pg_wait.error = Some([kind |-> "exhausted",
                                       attempts |-> pg_wait.max_retries])
       /\ (pg_wait.pc = "raised" /\ last.type = "Exception") =>
              /\ final
              /\ pg_wait.error = Some([kind |-> "reraised", exc |-> last])
       /\ (last.type = "Exception" /\ ~final) =>
              /\ pg_wait.pc \in {"except_other", "sleeping", "loop"}
              /\ pg_wait.error = None
              /\ pg_wait.pc = "except_other" => ENABLED PgWaitExceptOther
              /\ pg_wait.pc \in {"sleeping", "loop"} =>
                    /\ pg_wait.lastsleep =
                           Some([clause |-> "Exception",
                                 ticks |-> pg_wait.retry_delay * 1024])
                    /\ pg_wait.nsleeps = pg_wait.attempts
              /\ pg_wait.pc = "sleeping" => ENABLED PgWaitWake
              /\ pg_wait.pc = "loop" =>
                    /\ pg_wait.i = pg_wait.attempts
                    /\ ENABLED PgWaitAttempt([phase |-> "none", type |-> "ok",
                                              msg |-> {}])
       /\ (last.type = "Exception" /\ final) => pg_wait.pc # "sleeping"

\* C26 witness: with a budget of three, an unexpected exception on the
\* second attempt was slept on for retry_delay, and the same kind of
\* exception on the third attempt was raised as it was.
C26_Witness ==
    /\ pg_wait.pc = "raised"
    /\ pg_wait.max_retries = 3
    /\ pg_wait.attempts = 3
    /\ pg_wait.last.type = "Exception"
    /\ pg_wait.lastsleep = Some([clause |-> "Exception",
                                 ticks |-> pg_wait.retry_delay * 1024])
    /\ pg_wait.error = Some([kind |-> "reraised", exc |-> pg_wait.last])

=============================================================================
